---- MODULE Spec2Model ----
(***************************************************************************)
(* Model of ocmonitor's live monitoring service                            *)
(* (src/ocmonitor/services/live_monitor.py).                               *)
(*                                                                         *)
(* Spec          the two poll loops, LiveMonitor.start_monitoring (files)  *)
(*               and LiveMonitor.start_sqlite_workflow_monitoring, one     *)
(*               action per statement group, with KeyboardInterrupt able   *)
(*               to arrive at any statement inside the try block.          *)
(* SpecValidate  LiveMonitor.validate_monitoring_setup applied to every    *)
(*               environment of a bounded set.                             *)
(* SpecInterval the poll loops called with any refresh interval.           *)
(* SpecLive      the `live` command of src/ocmonitor/cli.py: validation,   *)
(*               choice of the data source, then the chosen poll loop.     *)
(* SpecRate      the three output-rate methods applied to every workflow   *)
(*               of a bounded set of interactions.                         *)
(* SpecContext   LiveMonitor._calculate_context_usage applied to every     *)
(*               interaction and pricing entry of a bounded set.           *)
(***************************************************************************)
EXTENDS Integers, Sequences, FiniteSets, TLC

\* ------------------------------------------------------------ bounds ----
NumSessions == 3        \* session ids that the store can hold
MaxTicks    == 3        \* iterations of `while True` that are explored
MaxDirs     == 2        \* session directories find_session_directories returns

SessionIds == 1..NumSessions

\* ------------------------------------------------------------- state ----
VARIABLES
  mode,                 \* "files": start_monitoring, "sqlite": start_sqlite_workflow_monitoring
  pc,                   \* position of the running method
  current_workflow,     \* local current_workflow (files) / workflow (sqlite)
  current_workflow_id,  \* local current_workflow_id (sqlite loop only)
  tracked_session_ids,  \* local tracked_session_ids
  new_workflow,         \* result of this iteration's query (workflows[0] / new_workflow)
  view,                 \* renderable held by rich's Live (what the display shows)
  console,              \* messages console.print wrote in the current iteration
  tick,                 \* index of the current loop iteration (0 before the loop)
  updates,              \* live.update calls made in the current iteration
  tick_start,           \* tracked id and tracked set when the iteration's query ran
  tracked_owner,        \* id of the workflow whose all_sessions tracked_session_ids was built from
  interrupted_at,       \* pc at which KeyboardInterrupt was raised, "none" otherwise
  env,                  \* environment seen by validate_monitoring_setup
  val_pc,               \* position of validate_monitoring_setup
  validation,           \* outcome of validate_monitoring_setup
  source,               \* --source option of the `live` command
  cli_pc,               \* position of the `live` command
  started,              \* poll loops the `live` command has called, in order
  exit_code,            \* exit status of the `live` command (-1 while it runs)
  refresh_interval,     \* refresh_interval argument of the poll loop
  exception,            \* exception that left the poll loop method, "none" otherwise
  all_sessions,         \* workflow.all_sessions: the files of each member session
  variant,              \* which output-rate method is applied
  rate_pc,              \* position of the output-rate computation
  recent_interactions,  \* local recent_interactions of the output-rate method
  rate,                 \* returned rate in tokens/sec, as an exact fraction <<num, den>>
  interaction_file,     \* argument of _calculate_context_usage
  model_pricing,        \* self.pricing_data entry of the interaction's model, if any
  ctx_pc,               \* position of _calculate_context_usage
  usage,                \* dict returned by _calculate_context_usage
  input_sessions,       \* local `sessions`: the list handed to group_sessions
  roots,                \* grouper: ids of the root sessions, in order
  children,             \* grouper: ids of the sessions with a parent still to be placed
  sub_agents,           \* grouper: sub-agent ids attached to each root, in order
  workflows,            \* local `workflows`: the list group_sessions returns
  group_pc,             \* position of group_sessions
  session_data,         \* per member session: start_time, end_time, total_tokens
  dash_pc,              \* position of the dashboard computation
  layouts,              \* arguments of each create_dashboard_layout call made so far
  wrapper,              \* the WorkflowWrapper built last
  announced             \* per session id: "New sub-agent detected" signals since the tracked id was set

loopVars == <<mode, pc, current_workflow, current_workflow_id, tracked_session_ids,
              new_workflow, view, console, tick, updates, tick_start,
              tracked_owner, interrupted_at>>
valVars  == <<env, val_pc, validation>>
runVars  == <<source, cli_pc, started, exit_code, refresh_interval, exception>>
calcVars == <<all_sessions, variant, rate_pc, recent_interactions, rate,
              interaction_file, model_pricing, ctx_pc, usage>>
groupVars == <<input_sessions, roots, children, sub_agents, workflows, group_pc>>
dashVars == <<session_data, dash_pc, layouts, wrapper>>
histVars == <<announced>>
vars     == <<loopVars, valVars, runVars, calcVars, groupVars, dashVars, histVars>>

\* ------------------------------------------------------ data domains ----
\* Python None / an empty `workflows` list: falsy in `if workflows:` and
\* `if new_workflow:`.
NoWorkflow == [workflow_id |-> 0, main_session |-> 0, all_sessions |-> {}, loaded |-> -1]

\* The workflows a query made in iteration t can return: a main session w
\* (workflow_id = main_session.session_id) and its sub-agents; all_sessions
\* always holds the main session.  `loaded` stamps the snapshot with the
\* iteration whose query produced it.
Workflows(t) ==
  UNION { { [workflow_id |-> w, main_session |-> w, all_sessions |-> S, loaded |-> t]
            : S \in { T \in SUBSET SessionIds : w \in T } }
          : w \in SessionIds }

NoView == [workflow_id |-> 0, sessions |-> {}, loaded |-> -1]

\* All orders in which a `for x in some_set` loop can visit the set.
Orders(S) ==
  { s \in [1..Cardinality(S) -> S] : \A i, j \in 1..Cardinality(S) : i # j => s[i] # s[j] }

\* -------------------------------------------------------- poll loops ----
\* The workflow id the loop compares against: current_workflow.workflow_id in
\* the file loop, the local current_workflow_id in the SQLite loop.
TrackedId ==
  IF mode = "files" THEN current_workflow.workflow_id ELSE current_workflow_id

\* The id tested against tracked_session_ids by the flapping check.
GuardId(w) ==
  IF mode = "files" THEN w.main_session ELSE w.workflow_id

\* _generate_workflow_dashboard / _generate_sqlite_workflow_dashboard: the
\* layout is built from the workflow object passed in and from nothing else.
Dashboard(w) ==
  [workflow_id |-> w.workflow_id, sessions |-> w.all_sessions, loaded |-> w.loaded]

StartErrors ==
  IF mode = "files"
    THEN {"No sessions found", "No workflows found"}
    ELSE {"SQLite database not found.", "No sessions found in database."}

Msg(sig, id) == [sig |-> sig, id |-> id]

LoopPcs == {"query", "classify", "adopt_id", "adopt_ids", "adopt_print",
            "same_subs", "same_assign", "update", "sleep"}
TryPcs  == LoopPcs \cup {"start", "live"}

Paths == {"explicit", "default"}

IdleEnv == [db_found |-> FALSE, stats_exists |-> FALSE, base_path |-> "",
            default_path |-> "", fs |-> [p \in Paths |-> "missing"],
            session_dirs |-> [p \in Paths |-> 0], pricing_empty |-> FALSE]
NoValidation == [kind |-> "none"]

\* refresh_interval: int = 5
DefaultInterval == 5

\* The float 0.0, as a fraction.
Zero == <<0, 1>>

\* The quotient n / d of a float division (n >= 0, d > 0), kept exact as a
\* fraction in lowest terms.
RECURSIVE GCD(_, _)
GCD(a, b) == IF b = 0 THEN a ELSE GCD(b, a % b)
Quotient(n, d) == <<n \div GCD(n, d), d \div GCD(n, d)>>

\* No output-rate computation is in progress.
RateIdle ==
  /\ all_sessions = << >>
  /\ variant = "none"
  /\ rate_pc = "idle"
  /\ recent_interactions = << >>
  /\ rate = Zero

\* No context-usage computation is in progress.
ContextIdle ==
  /\ interaction_file = [input |-> 0, cache_read |-> 0, cache_write |-> 0]
  /\ model_pricing = [known |-> FALSE, context_window |-> 0]
  /\ ctx_pc = "idle"
  /\ usage = [context_size |-> 0, context_window |-> 0, usage_percentage |-> Zero]

CalcIdle == RateIdle /\ ContextIdle

\* Nothing has been announced.
NoneAnnounced == [i \in SessionIds |-> 0]

\* group_sessions is not running.
GroupIdle ==
  /\ input_sessions = << >>
  /\ roots = << >>
  /\ children = << >>
  /\ sub_agents = << >>
  /\ workflows = << >>
  /\ group_pc = "idle"

\* No WorkflowWrapper has been built.
NoWrapper == [built |-> FALSE]

\* No dashboard is being generated.
DashIdle ==
  /\ session_data = << >>
  /\ dash_pc = "idle"
  /\ layouts = << >>
  /\ wrapper = NoWrapper

\* A poll loop method has just been called.
LoopInit ==
  /\ mode \in {"files", "sqlite"}
  /\ pc = "start"
  /\ current_workflow = NoWorkflow
  /\ current_workflow_id = 0
  /\ tracked_session_ids = {}
  /\ new_workflow = NoWorkflow
  /\ view = NoView
  /\ console = << >>
  /\ tick = 0
  /\ updates = 0
  /\ tick_start = [id |-> 0, tracked |-> {}]
  /\ tracked_owner = 0
  /\ interrupted_at = "none"
  /\ announced = NoneAnnounced
  /\ env = IdleEnv
  /\ val_pc = "idle"
  /\ validation = NoValidation
  /\ source = "none"
  /\ cli_pc = "idle"
  /\ started = << >>
  /\ exit_code = -1
  /\ exception = "none"
  /\ CalcIdle
  /\ GroupIdle
  /\ DashIdle

Init ==
  /\ LoopInit
  /\ refresh_interval = DefaultInterval

\* First load finds nothing: print an error and return.
StartFail ==
  /\ pc = "start"
  /\ \E m \in StartErrors : console' = Append(console, Msg(m, 0))
  /\ pc' = "returned"
  /\ UNCHANGED <<mode, current_workflow, current_workflow_id, tracked_session_ids,
                 new_workflow, view, tick, updates, tick_start, tracked_owner,
                 interrupted_at, valVars, runVars, calcVars, groupVars, dashVars, histVars>>

\* Variant of StartTrack: only the main session's id is tracked at startup.
StartTrackMainOnly ==
  /\ pc = "start"
  /\ \E w \in Workflows(0) :
       /\ current_workflow' = w
       /\ current_workflow_id' = IF mode = "sqlite" THEN w.workflow_id ELSE current_workflow_id
       /\ tracked_session_ids' = {w.main_session}
       /\ tracked_owner' = w.workflow_id
       /\ console' = Append(console, Msg("Starting live monitoring of workflow", w.workflow_id))
  /\ pc' = "live"
  /\ UNCHANGED <<mode, new_workflow, view, tick, updates, tick_start,
                 interrupted_at, valVars, runVars, calcVars, groupVars, dashVars, histVars>>

\* First load finds a workflow: take workflows[0] and its session ids.
StartTrack ==
  /\ pc = "start"
  /\ \E w \in Workflows(0) :
       /\ current_workflow' = w
       /\ current_workflow_id' = IF mode = "sqlite" THEN w.workflow_id ELSE current_workflow_id
       /\ tracked_session_ids' = w.all_sessions
       /\ tracked_owner' = w.workflow_id
       /\ console' = Append(console, Msg("Starting live monitoring of workflow", w.workflow_id))
  /\ pc' = "live"
  /\ UNCHANGED <<mode, new_workflow, view, tick, updates, tick_start,
                 interrupted_at, valVars, runVars, calcVars, groupVars, dashVars, histVars>>

\* `with Live(<dashboard of the first workflow>, refresh_per_second=1/refresh_interval,
\* ...) as live:` the division needs a non-zero interval.
EnterLive ==
  /\ pc = "live"
  /\ refresh_interval # 0
  /\ view' = Dashboard(current_workflow)
  /\ tick' = 1
  /\ console' = << >>
  /\ pc' = "query"
  /\ UNCHANGED <<mode, current_workflow, current_workflow_id, tracked_session_ids,
                 new_workflow, updates, tick_start, tracked_owner,
                 interrupted_at, valVars, runVars, calcVars, groupVars, dashVars, histVars>>

\* Reload: load_all_sessions + group_sessions / get_most_recent_workflow.
Query ==
  /\ pc = "query"
  /\ new_workflow' \in Workflows(tick) \cup {NoWorkflow}
  /\ tick_start' = [id |-> TrackedId, tracked |-> tracked_session_ids]
  /\ pc' = "classify"
  /\ UNCHANGED <<mode, current_workflow, current_workflow_id, tracked_session_ids,
                 view, console, tick, updates, tracked_owner, interrupted_at, valVars, runVars, calcVars, groupVars, dashVars, histVars>>

\* Variant of NoResult: an empty result skips the rest of the iteration body
\* (`continue`-style), so live.update is not called.
NoResultContinues ==
  /\ pc = "classify"
  /\ new_workflow = NoWorkflow
  /\ pc' = "sleep"
  /\ UNCHANGED <<mode, current_workflow, current_workflow_id, tracked_session_ids,
                 new_workflow, view, console, tick, updates, tick_start,
                 tracked_owner, interrupted_at, valVars, runVars, calcVars, groupVars, dashVars, histVars>>

\* Variant of NoResult: an empty result ends the method as it does at startup.
NoResultReturns ==
  /\ pc = "classify"
  /\ new_workflow = NoWorkflow
  /\ console' = Append(console, Msg("No sessions found", 0))
  /\ pc' = "returned"
  /\ UNCHANGED <<mode, current_workflow, current_workflow_id, tracked_session_ids,
                 new_workflow, view, tick, updates, tick_start,
                 tracked_owner, interrupted_at, valVars, runVars, calcVars, groupVars, dashVars, histVars>>

\* Variant of NoResult: an empty result is taken as the end of the tracked
\* workflow and the tracked set is cleared.
NoResultForgets ==
  /\ pc = "classify"
  /\ new_workflow = NoWorkflow
  /\ tracked_session_ids' = {}
  /\ pc' = "update"
  /\ UNCHANGED <<mode, current_workflow, current_workflow_id,
                 new_workflow, view, console, tick, updates, tick_start,
                 tracked_owner, interrupted_at, valVars, runVars, calcVars, groupVars, dashVars, histVars>>

\* `if workflows:` / `if new_workflow:` is false.
NoResult ==
  /\ pc = "classify"
  /\ new_workflow = NoWorkflow
  /\ pc' = "update"
  /\ UNCHANGED <<mode, current_workflow, current_workflow_id, tracked_session_ids,
                 new_workflow, view, console, tick, updates, tick_start,
                 tracked_owner, interrupted_at, valVars, runVars, calcVars, groupVars, dashVars, histVars>>

\* Variant of FlappingGuard: the tracked sub-agent's workflow is taken as an
\* update of the tracked one and its session ids replace the tracked set.
FlappingGuardRetracks ==
  /\ pc = "classify"
  /\ new_workflow # NoWorkflow
  /\ new_workflow.workflow_id # TrackedId
  /\ GuardId(new_workflow) \in tracked_session_ids
  /\ tracked_session_ids' = new_workflow.all_sessions
  /\ pc' = "update"
  /\ UNCHANGED <<mode, current_workflow, current_workflow_id,
                 new_workflow, view, console, tick, updates, tick_start,
                 tracked_owner, interrupted_at, valVars, runVars, calcVars, groupVars, dashVars, histVars>>

\* Variant of FlappingGuard: the tracked sub-agent's workflow is displayed
\* while the tracked id and set stay as they were.
FlappingGuardDisplays ==
  /\ pc = "classify"
  /\ new_workflow # NoWorkflow
  /\ new_workflow.workflow_id # TrackedId
  /\ GuardId(new_workflow) \in tracked_session_ids
  /\ current_workflow' = new_workflow
  /\ pc' = "update"
  /\ UNCHANGED <<mode, current_workflow_id, tracked_session_ids,
                 new_workflow, view, console, tick, updates, tick_start,
                 tracked_owner, interrupted_at, valVars, runVars, calcVars, groupVars, dashVars, histVars>>

\* Variant of FlappingGuard: only the file loop has the guard; the SQLite loop
\* adopts every workflow whose id differs from the tracked one.
FlappingGuardFilesOnly ==
  /\ pc = "classify"
  /\ new_workflow # NoWorkflow
  /\ new_workflow.workflow_id # TrackedId
  /\ GuardId(new_workflow) \in tracked_session_ids
  /\ IF mode = "files"
       THEN pc' = "update" /\ UNCHANGED current_workflow
       ELSE pc' = "adopt_id" /\ current_workflow' = new_workflow
  /\ UNCHANGED <<mode, current_workflow_id, tracked_session_ids,
                 new_workflow, view, console, tick, updates, tick_start,
                 tracked_owner, interrupted_at, valVars, runVars, calcVars, groupVars, dashVars, histVars>>

\* Different workflow id, but the id is a tracked session: nothing is assigned.
FlappingGuard ==
  /\ pc = "classify"
  /\ new_workflow # NoWorkflow
  /\ new_workflow.workflow_id # TrackedId
  /\ GuardId(new_workflow) \in tracked_session_ids
  /\ pc' = "update"
  /\ UNCHANGED <<mode, current_workflow, current_workflow_id, tracked_session_ids,
                 new_workflow, view, console, tick, updates, tick_start,
                 tracked_owner, interrupted_at, valVars, runVars, calcVars, groupVars, dashVars, histVars>>

\* Variant of AdoptWorkflow: the guard is made symmetric, so a new root whose
\* members include the tracked main session is not adopted.
AdoptWorkflowUnlessOldMain ==
  /\ pc = "classify"
  /\ new_workflow # NoWorkflow
  /\ new_workflow.workflow_id # TrackedId
  /\ GuardId(new_workflow) \notin tracked_session_ids
  /\ IF TrackedId \in new_workflow.all_sessions
       THEN pc' = "update" /\ UNCHANGED <<current_workflow, announced>>
       ELSE /\ current_workflow' = new_workflow
            /\ announced' = NoneAnnounced
            /\ pc' = IF mode = "sqlite" THEN "adopt_id" ELSE "adopt_ids"
  /\ UNCHANGED <<mode, current_workflow_id, tracked_session_ids, new_workflow, view,
                 console, tick, updates, tick_start, tracked_owner,
                 interrupted_at, valVars, runVars, calcVars, groupVars, dashVars>>

\* Different workflow id that is not tracked: `current_workflow = new_workflow`.
\* A new tracking period begins, with nothing announced in it.
AdoptWorkflow ==
  /\ pc = "classify"
  /\ new_workflow # NoWorkflow
  /\ new_workflow.workflow_id # TrackedId
  /\ GuardId(new_workflow) \notin tracked_session_ids
  /\ current_workflow' = new_workflow
  /\ announced' = NoneAnnounced
  /\ pc' = IF mode = "sqlite" THEN "adopt_id" ELSE "adopt_ids"
  /\ UNCHANGED <<mode, current_workflow_id, tracked_session_ids, new_workflow, view,
                 console, tick, updates, tick_start, tracked_owner,
                 interrupted_at, valVars, runVars, calcVars, groupVars, dashVars>>

\* Variant of AdoptId: the assignment of current_workflow_id is missing.
AdoptIdSkipped ==
  /\ pc = "adopt_id"
  /\ pc' = "adopt_ids"
  /\ UNCHANGED <<mode, current_workflow, current_workflow_id, tracked_session_ids,
                 new_workflow, view, console, tick, updates, tick_start,
                 tracked_owner, interrupted_at, valVars, runVars, calcVars, groupVars, dashVars, histVars>>

\* SQLite loop: `current_workflow_id = workflow['workflow_id']`.
AdoptId ==
  /\ pc = "adopt_id"
  /\ current_workflow_id' = current_workflow.workflow_id
  /\ pc' = "adopt_ids"
  /\ UNCHANGED <<mode, current_workflow, tracked_session_ids, new_workflow, view,
                 console, tick, updates, tick_start, tracked_owner,
                 interrupted_at, valVars, runVars, calcVars, groupVars, dashVars, histVars>>

\* Variant of AdoptIds: the new ids are added to the tracked set in place
\* (`tracked_session_ids |= ...`) instead of replacing it.
AdoptIdsMerged ==
  /\ pc = "adopt_ids"
  /\ tracked_session_ids' = tracked_session_ids \cup current_workflow.all_sessions
  /\ tracked_owner' = current_workflow.workflow_id
  /\ pc' = "adopt_print"
  /\ UNCHANGED <<mode, current_workflow, current_workflow_id, new_workflow, view,
                 console, tick, updates, tick_start, interrupted_at, valVars, runVars, calcVars, groupVars, dashVars, histVars>>

\* `tracked_session_ids = set(s.session_id for s in <workflow>.all_sessions)`.
AdoptIds ==
  /\ pc = "adopt_ids"
  /\ tracked_session_ids' = current_workflow.all_sessions
  /\ tracked_owner' = current_workflow.workflow_id
  /\ pc' = "adopt_print"
  /\ UNCHANGED <<mode, current_workflow, current_workflow_id, new_workflow, view,
                 console, tick, updates, tick_start, interrupted_at, valVars, runVars, calcVars, groupVars, dashVars, histVars>>

\* Variant of AdoptPrint: the sub-agents of the adopted workflow are announced
\* after the workflow itself.
AdoptPrintAnnouncesSubs ==
  /\ pc = "adopt_print"
  /\ LET subs == current_workflow.all_sessions \ {current_workflow.main_session}
     IN  \E o \in Orders(subs) :
           console' = Append(console, Msg("New workflow detected", TrackedId)) \o
             [i \in 1..Cardinality(subs) |-> Msg("New sub-agent detected", o[i])]
  /\ pc' = "update"
  /\ UNCHANGED <<mode, current_workflow, current_workflow_id, tracked_session_ids,
                 new_workflow, view, tick, updates, tick_start, tracked_owner,
                 interrupted_at, valVars, runVars, calcVars, groupVars, dashVars, histVars>>

\* "New workflow detected: <id>" (the SQLite loop adds "Now tracking ..."
\* when the workflow has sub-agents).
AdoptPrint ==
  /\ pc = "adopt_print"
  /\ console' =
       LET c == Append(console, Msg("New workflow detected", TrackedId))
       IN  IF mode = "sqlite" /\ Cardinality(current_workflow.all_sessions) > 1
             THEN Append(c, Msg("Now tracking", TrackedId))
             ELSE c
  /\ pc' = "update"
  /\ UNCHANGED <<mode, current_workflow, current_workflow_id, tracked_session_ids,
                 new_workflow, view, tick, updates, tick_start, tracked_owner,
                 interrupted_at, valVars, runVars, calcVars, groupVars, dashVars, histVars>>

\* Same workflow id: `current_workflow = new_workflow`.
SameUpdate ==
  /\ pc = "classify"
  /\ new_workflow # NoWorkflow
  /\ new_workflow.workflow_id = TrackedId
  /\ current_workflow' = new_workflow
  /\ pc' = "same_subs"
  /\ UNCHANGED <<mode, current_workflow_id, tracked_session_ids, new_workflow, view,
                 console, tick, updates, tick_start, tracked_owner,
                 interrupted_at, valVars, runVars, calcVars, groupVars, dashVars, histVars>>

\* new_subs = new_ids - tracked_session_ids; one "New sub-agent detected"
\* per member, in the set's iteration order.
SameAnnounce ==
  /\ pc = "same_subs"
  /\ LET new_ids  == current_workflow.all_sessions
         new_subs == new_ids \ tracked_session_ids
     IN  /\ \E o \in Orders(new_subs) :
               console' = console \o
                 [i \in 1..Cardinality(new_subs) |-> Msg("New sub-agent detected", o[i])]
         /\ announced' = [i \in SessionIds |->
                             IF i \in new_subs THEN announced[i] + 1 ELSE announced[i]]
         /\ pc' = IF new_subs # {} THEN "same_assign" ELSE "update"
  /\ UNCHANGED <<mode, current_workflow, current_workflow_id, tracked_session_ids,
                 new_workflow, view, tick, updates, tick_start, tracked_owner,
                 interrupted_at, valVars, runVars, calcVars, groupVars, dashVars>>

\* Variant of SameAssign: only the newly seen ids are stored.
SameAssignOnlyNew ==
  /\ pc = "same_assign"
  /\ tracked_session_ids' = current_workflow.all_sessions \ tracked_session_ids
  /\ tracked_owner' = current_workflow.workflow_id
  /\ pc' = "update"
  /\ UNCHANGED <<mode, current_workflow, current_workflow_id, new_workflow, view,
                 console, tick, updates, tick_start, interrupted_at, valVars, runVars, calcVars, groupVars, dashVars, histVars>>

\* Variant of SameAssign: the announced ids are not stored.
SameAssignSkipped ==
  /\ pc = "same_assign"
  /\ pc' = "update"
  /\ UNCHANGED <<mode, current_workflow, current_workflow_id, tracked_session_ids,
                 new_workflow, view, console, tick, updates, tick_start,
                 tracked_owner, interrupted_at, valVars, runVars, calcVars, groupVars, dashVars, histVars>>

\* `tracked_session_ids = new_ids`.
SameAssign ==
  /\ pc = "same_assign"
  /\ tracked_session_ids' = current_workflow.all_sessions
  /\ tracked_owner' = current_workflow.workflow_id
  /\ pc' = "update"
  /\ UNCHANGED <<mode, current_workflow, current_workflow_id, new_workflow, view,
                 console, tick, updates, tick_start, interrupted_at, valVars, runVars, calcVars, groupVars, dashVars, histVars>>

\* Variant of Update: the sleep is missing, the next iteration's query follows
\* the render at once.
UpdateSkipsSleep ==
  /\ pc = "update"
  /\ view' = Dashboard(current_workflow)
  /\ IF tick < MaxTicks
       THEN /\ pc' = "query"
            /\ tick' = tick + 1
            /\ console' = << >>
            /\ updates' = 0
       ELSE /\ pc' = "sleep"
            /\ updates' = updates + 1
            /\ UNCHANGED <<tick, console>>
  /\ UNCHANGED <<mode, current_workflow, current_workflow_id, tracked_session_ids,
                 new_workflow, tick_start, tracked_owner,
                 interrupted_at, valVars, runVars, calcVars, groupVars, dashVars, histVars>>

\* `live.update(<dashboard of current workflow>)`.
Update ==
  /\ pc = "update"
  /\ view' = Dashboard(current_workflow)
  /\ updates' = updates + 1
  /\ pc' = "sleep"
  /\ UNCHANGED <<mode, current_workflow, current_workflow_id, tracked_session_ids,
                 new_workflow, console, tick, tick_start, tracked_owner,
                 interrupted_at, valVars, runVars, calcVars, groupVars, dashVars, histVars>>

\* `time.sleep(refresh_interval)` returns and the loop goes round; console and
\* updates start counting for the next iteration.
Sleep ==
  /\ pc = "sleep"
  /\ refresh_interval >= 0
  /\ tick < MaxTicks
  /\ tick' = tick + 1
  /\ console' = << >>
  /\ updates' = 0
  /\ pc' = "query"
  /\ UNCHANGED <<mode, current_workflow, current_workflow_id, tracked_session_ids,
                 new_workflow, view, tick_start, tracked_owner,
                 interrupted_at, valVars, runVars, calcVars, groupVars, dashVars, histVars>>

\* Variant of Interrupt: the interrupt is deferred to the end of the tick, so
\* a tick in progress publishes its view before the method returns.
InterruptDeferred ==
  /\ pc \in TryPcs
  /\ interrupted_at' = pc
  /\ console' = Append(console, Msg("Live monitoring stopped.", 0))
  /\ view' = IF pc \in LoopPcs \ {"sleep", "query"}
               THEN Dashboard(IF new_workflow # NoWorkflow THEN new_workflow
                              ELSE current_workflow)
               ELSE view
  /\ updates' = IF pc \in LoopPcs \ {"sleep", "query"} THEN updates + 1 ELSE updates
  /\ pc' = "stopped"
  /\ UNCHANGED <<mode, current_workflow, current_workflow_id, tracked_session_ids,
                 new_workflow, tick, tick_start, tracked_owner, valVars, runVars, calcVars, groupVars, dashVars, histVars>>

\* KeyboardInterrupt is raised in the main thread at whatever statement is
\* executing inside `try:`; the handler prints and the method returns.
Interrupt ==
  /\ pc \in TryPcs
  /\ interrupted_at' = pc
  /\ console' = Append(console, Msg("Live monitoring stopped.", 0))
  /\ pc' = "stopped"
  /\ UNCHANGED <<mode, current_workflow, current_workflow_id, tracked_session_ids,
                 new_workflow, view, tick, updates, tick_start, tracked_owner,
                 valVars, runVars, calcVars, groupVars, dashVars, histVars>>

\* `1/refresh_interval` with refresh_interval = 0: ZeroDivisionError leaves the
\* method (only KeyboardInterrupt is caught).
LiveZeroDivision ==
  /\ pc = "live"
  /\ refresh_interval = 0
  /\ pc' = "raised"
  /\ exception' = "ZeroDivisionError"
  /\ UNCHANGED <<mode, current_workflow, current_workflow_id, tracked_session_ids,
                 new_workflow, view, console, tick, updates, tick_start, tracked_owner,
                 interrupted_at, valVars, source, cli_pc, started, exit_code,
                 refresh_interval, calcVars, groupVars, dashVars, histVars>>

\* rich's Live checks `refresh_per_second > 0` with an assert statement: with
\* assertions enabled a negative rate is rejected (this action), with
\* assertions disabled it is accepted (EnterLive).
LiveRejectsRate ==
  /\ pc = "live"
  /\ refresh_interval < 0
  /\ pc' = "raised"
  /\ exception' = "AssertionError"
  /\ UNCHANGED <<mode, current_workflow, current_workflow_id, tracked_session_ids,
                 new_workflow, view, console, tick, updates, tick_start, tracked_owner,
                 interrupted_at, valVars, source, cli_pc, started, exit_code,
                 refresh_interval, calcVars, groupVars, dashVars, histVars>>

\* `time.sleep(refresh_interval)` with a negative interval raises ValueError.
SleepRaises ==
  /\ pc = "sleep"
  /\ refresh_interval < 0
  /\ pc' = "raised"
  /\ exception' = "ValueError"
  /\ UNCHANGED <<mode, current_workflow, current_workflow_id, tracked_session_ids,
                 new_workflow, view, console, tick, updates, tick_start, tracked_owner,
                 interrupted_at, valVars, source, cli_pc, started, exit_code,
                 refresh_interval, calcVars, groupVars, dashVars, histVars>>

Next ==
  \/ StartFail
  \/ StartTrack
  \/ EnterLive
  \/ Query
  \/ NoResult
  \/ FlappingGuard
  \/ AdoptWorkflow
  \/ AdoptId
  \/ AdoptIds
  \/ AdoptPrint
  \/ SameUpdate
  \/ SameAnnounce
  \/ SameAssign
  \/ Update
  \/ Sleep
  \/ Interrupt

Spec == Init /\ [][Next]_vars


\* The poll loops called with any interval, non-positive ones included.
Intervals == {-DefaultInterval, 0, DefaultInterval}

InitInterval ==
  /\ LoopInit
  /\ refresh_interval \in Intervals

NextInterval ==
  \/ Next
  \/ LiveZeroDivision
  \/ LiveRejectsRate
  \/ SleepRaises

SpecInterval == InitInterval /\ [][NextInterval]_vars

\* ------------------------------------------- validate_monitoring_setup ----
\* The environments validate_monitoring_setup is applied to:
\*   db_found       SQLiteProcessor.find_database_path() returned a path
\*   stats_exists   get_database_stats(db_path).get('exists') is truthy
\*   base_path      the argument ("" stands for None / not given)
\*   default_path   opencode_storage_path("message") ("" stands for a falsy value)
\*   fs             what each path is on disk
\*   session_dirs   len(FileProcessor.find_session_directories(path))
\*   pricing_empty  self.pricing_data is empty
Envs ==
  [db_found : BOOLEAN, stats_exists : BOOLEAN,
   base_path : {"", "explicit"}, default_path : {"", "default"},
   fs : [Paths -> {"missing", "file", "dir"}],
   session_dirs : [Paths -> 0..MaxDirs],
   pricing_empty : BOOLEAN]

NoSourceIssue == "No session data source found. Expected SQLite database or file storage."
NoStatsWarning == "SQLite database found but cannot read stats"
NoPricingWarning == "No pricing data available - costs will show as $0.00"

\* Variant of ResolvedBasePath: the default storage path wins over the argument
\* (`opencode_storage_path("message") or base_path`).
ResolvedBasePathDefaultFirst(e) ==
  IF e.default_path # "" THEN e.default_path ELSE e.base_path

\* `base_path = base_path or opencode_storage_path("message")`
ResolvedBasePath(e) ==
  IF e.base_path # "" THEN e.base_path ELSE e.default_path

\* The info dict after the SQLite block: the key 'sqlite' is set when no
\* database is found and when its stats are readable, and in no other case.
SqliteInfo(e) ==
  IF e.db_found
    THEN IF e.stats_exists
           THEN "sqlite" :> [available |-> TRUE, path |-> "db"]
           ELSE << >>
    ELSE "sqlite" :> [available |-> FALSE]

\* Variant of FilesInfo: a storage directory without session directories is
\* reported as unavailable.
FilesInfoEmptyUnavailable(e) ==
  LET bp == ResolvedBasePath(e)
  IN  IF bp # "" /\ e.fs[bp] = "dir" /\ e.session_dirs[bp] > 0
        THEN [available |-> TRUE, path |-> bp, sessions |-> e.session_dirs[bp]]
        ELSE [available |-> FALSE]

\* info['files'] after the file-storage block.
FilesInfo(e) ==
  LET bp == ResolvedBasePath(e)
  IN  IF bp # "" /\ e.fs[bp] = "dir"
        THEN [available |-> TRUE, path |-> bp, sessions |-> e.session_dirs[bp]]
        ELSE [available |-> FALSE]

ValidateMonitoringSetup(e) ==
  LET info == SqliteInfo(e) @@ ("files" :> FilesInfo(e))
      warnings ==
        (IF e.db_found /\ ~e.stats_exists THEN <<NoStatsWarning>> ELSE << >>)
        \o (IF e.pricing_empty THEN <<NoPricingWarning>> ELSE << >>)
  IN  IF "sqlite" \notin DOMAIN info
        THEN \* info['sqlite'] in the final check raises KeyError
             [kind |-> "raised", exception |-> "KeyError"]
        ELSE LET issues ==
                   IF ~info["sqlite"].available /\ ~info["files"].available
                     THEN <<NoSourceIssue>> ELSE << >>
             IN  [kind |-> "returned", valid |-> (Len(issues) = 0),
                  issues |-> issues, warnings |-> warnings, info |-> info]

InitValidate ==
  /\ mode = "files"
  /\ pc = "idle"
  /\ current_workflow = NoWorkflow
  /\ current_workflow_id = 0
  /\ tracked_session_ids = {}
  /\ new_workflow = NoWorkflow
  /\ view = NoView
  /\ console = << >>
  /\ tick = 0
  /\ updates = 0
  /\ tick_start = [id |-> 0, tracked |-> {}]
  /\ tracked_owner = 0
  /\ interrupted_at = "none"
  /\ announced = NoneAnnounced
  /\ env \in Envs
  /\ val_pc = "call"
  /\ validation = NoValidation
  /\ source = "none"
  /\ cli_pc = "idle"
  /\ started = << >>
  /\ exit_code = -1
  /\ refresh_interval = DefaultInterval
  /\ exception = "none"
  /\ CalcIdle
  /\ GroupIdle
  /\ DashIdle

Validate ==
  /\ val_pc = "call"
  /\ validation' = ValidateMonitoringSetup(env)
  /\ val_pc' = "done"
  /\ UNCHANGED <<env, loopVars, runVars, calcVars, groupVars, dashVars, histVars>>

NextValidate == Validate

SpecValidate == InitValidate /\ [][NextValidate]_vars

\* --------------------------------------------------- the `live` command ----
\* Environments of a `live` run: the command always passes a path
\* (`path or config.paths.messages_dir`) to validate_monitoring_setup.
LiveEnvs ==
  { e \in Envs : /\ e.base_path = "explicit"
                 /\ e.default_path = "default"
                 /\ e.fs["default"] = "missing"
                 /\ e.session_dirs = [p \in Paths |-> MaxDirs]
                 /\ ~e.pricing_empty }

Sources == {"auto", "sqlite", "files"}

\* sqlite_available / files_available as read from the validation result.
LiveSqliteAvailable == validation.info["sqlite"].available
LiveFilesAvailable  == validation.info["files"].available

\* Variant of UseSqlite: `auto` does not select SQLite.
UseSqliteExplicitOnly(src, sqlite_available) ==
  src = "sqlite"

\* use_sqlite = (source == "sqlite") or (source == "auto" and sqlite_available)
UseSqlite(src, sqlite_available) ==
  (src = "sqlite") \/ (src = "auto" /\ sqlite_available)

\* Variant of UseFiles: file storage is used whenever SQLite is unavailable,
\* also when SQLite was requested explicitly.
UseFilesFallsBack(src, sqlite_available, files_available) ==
  (src = "files") \/ (~sqlite_available /\ files_available)

\* use_files = (source == "files") or
\*             (source == "auto" and not sqlite_available and files_available)
UseFiles(src, sqlite_available, files_available) ==
  (src = "files") \/ (src = "auto" /\ ~sqlite_available /\ files_available)

InitLive ==
  /\ mode = "none"
  /\ pc = "idle"
  /\ current_workflow = NoWorkflow
  /\ current_workflow_id = 0
  /\ tracked_session_ids = {}
  /\ new_workflow = NoWorkflow
  /\ view = NoView
  /\ console = << >>
  /\ tick = 0
  /\ updates = 0
  /\ tick_start = [id |-> 0, tracked |-> {}]
  /\ tracked_owner = 0
  /\ interrupted_at = "none"
  /\ announced = NoneAnnounced
  /\ env \in LiveEnvs
  /\ val_pc = "idle"
  /\ validation = NoValidation
  /\ source \in Sources
  /\ cli_pc = "validate"
  /\ started = << >>
  /\ exit_code = -1
  /\ refresh_interval = DefaultInterval
  /\ exception = "none"
  /\ CalcIdle
  /\ GroupIdle
  /\ DashIdle

\* validation = live_monitor.validate_monitoring_setup(...); an exception is
\* caught by `except Exception` and the command exits with status 1.
LiveValidate ==
  /\ cli_pc = "validate"
  /\ validation' = ValidateMonitoringSetup(env)
  /\ IF validation'.kind = "raised"
       THEN cli_pc' = "exit" /\ exit_code' = 1 /\ exception' = validation'.exception
       ELSE cli_pc' = "validated" /\ UNCHANGED <<exit_code, exception>>
  /\ UNCHANGED <<loopVars, env, val_pc, source, started, refresh_interval, calcVars, groupVars, dashVars, histVars>>

\* `if not validation["valid"]: ... ctx.exit(1)`
LiveInvalid ==
  /\ cli_pc = "validated"
  /\ ~validation.valid
  /\ cli_pc' = "exit"
  /\ exit_code' = 1
  /\ UNCHANGED <<loopVars, valVars, source, started, refresh_interval, exception, calcVars, groupVars, dashVars, histVars>>

\* `if use_sqlite and sqlite_available: start_sqlite_workflow_monitoring(interval)`
LiveStartSqlite ==
  /\ cli_pc = "validated"
  /\ validation.valid
  /\ UseSqlite(source, LiveSqliteAvailable) /\ LiveSqliteAvailable
  /\ mode' = "sqlite"
  /\ pc' = "start"
  /\ started' = Append(started, "sqlite")
  /\ cli_pc' = "running"
  /\ UNCHANGED <<current_workflow, current_workflow_id, tracked_session_ids,
                 new_workflow, view, console, tick, updates, tick_start,
                 tracked_owner, interrupted_at, valVars, source, exit_code,
                 refresh_interval, exception, calcVars, groupVars, dashVars, histVars>>

\* `elif use_files and files_available: start_monitoring(path, interval)`
LiveStartFiles ==
  /\ cli_pc = "validated"
  /\ validation.valid
  /\ ~(UseSqlite(source, LiveSqliteAvailable) /\ LiveSqliteAvailable)
  /\ UseFiles(source, LiveSqliteAvailable, LiveFilesAvailable) /\ LiveFilesAvailable
  /\ mode' = "files"
  /\ pc' = "start"
  /\ started' = Append(started, "files")
  /\ cli_pc' = "running"
  /\ UNCHANGED <<current_workflow, current_workflow_id, tracked_session_ids,
                 new_workflow, view, console, tick, updates, tick_start,
                 tracked_owner, interrupted_at, valVars, source, exit_code,
                 refresh_interval, exception, calcVars, groupVars, dashVars, histVars>>

\* `else: "No data source available..."; ctx.exit(1)`
LiveNoSource ==
  /\ cli_pc = "validated"
  /\ validation.valid
  /\ ~(UseSqlite(source, LiveSqliteAvailable) /\ LiveSqliteAvailable)
  /\ ~(UseFiles(source, LiveSqliteAvailable, LiveFilesAvailable) /\ LiveFilesAvailable)
  /\ cli_pc' = "exit"
  /\ exit_code' = 1
  /\ UNCHANGED <<loopVars, valVars, source, started, refresh_interval, exception, calcVars, groupVars, dashVars, histVars>>

\* Variant of LiveReturn: when the SQLite loop returns without data and file
\* storage is available, the command falls back to the file loop.
LiveReturnFallsBack ==
  /\ cli_pc = "running"
  /\ pc \in {"returned", "stopped"}
  /\ IF pc = "returned" /\ mode = "sqlite" /\ LiveFilesAvailable
       THEN /\ mode' = "files"
            /\ pc' = "start"
            /\ started' = Append(started, "files")
            /\ UNCHANGED <<cli_pc, exit_code>>
       ELSE /\ cli_pc' = "exit"
            /\ exit_code' = 0
            /\ UNCHANGED <<mode, pc, started>>
  /\ UNCHANGED <<current_workflow, current_workflow_id, tracked_session_ids,
                 new_workflow, view, console, tick, updates, tick_start,
                 tracked_owner, interrupted_at, valVars, source,
                 refresh_interval, exception, calcVars, groupVars, dashVars, histVars>>

\* The poll loop method returned (no data at startup, or interrupted): the
\* command ends.
LiveReturn ==
  /\ cli_pc = "running"
  /\ pc \in {"returned", "stopped"}
  /\ cli_pc' = "exit"
  /\ exit_code' = 0
  /\ UNCHANGED <<loopVars, valVars, source, started, refresh_interval, exception, calcVars, groupVars, dashVars, histVars>>

NextLive ==
  \/ LiveValidate
  \/ LiveInvalid
  \/ LiveStartSqlite
  \/ LiveStartFiles
  \/ LiveNoSource
  \/ LiveReturn
  \/ Next

SpecLive == InitLive /\ [][NextLive]_vars

\* ------------------------------------------------------- output rate ----
\* Member sessions of a workflow and files per session.
NumMembers == 2
MaxFiles == 1

\* datetime.now() and the length of the trailing window, in minutes.
Now == 6
WindowMinutes == 5

\* Timestamps of an interaction: 0 (the epoch; on the database path also a
\* missing time_data.created), the cutoff itself, now, and later than now.
Times == {0, Now - WindowMinutes, Now, Now + 1}
OutputTokens == {0, 100, 300}
\* time_data.duration_ms; 0 also stands for a missing duration.
Durations == {0, 2000}

\* An InteractionFile as the rate methods read it: stamp is modification_time
\* on the file path and time_data.created on the database path.
InteractionFiles == [stamp : Times, output : OutputTokens, duration_ms : Durations]
SessionFiles == UNION {[1..n -> InteractionFiles] : n \in 0..MaxFiles}
WorkflowInputs == UNION {[1..n -> SessionFiles] : n \in 1..NumMembers}
Variants == {"session", "workflow", "sqlite"}

\* for session in all_sessions: all_files.extend(session.files)
RECURSIVE AllFiles(_)
AllFiles(sessions) ==
  IF sessions = << >> THEN << >> ELSE Head(sessions) \o AllFiles(Tail(sessions))

\* cutoff_time = datetime.now() - timedelta(minutes=5)
CutoffTime == Now - WindowMinutes

\* [f for f in files if f.modification_time >= cutoff_time]
RecentByModification(files) == SelectSeq(files, LAMBDA f : f.stamp >= CutoffTime)

\* files with `f.time_data and f.time_data.created` whose creation time is
\* >= cutoff_time
RecentByCreation(files) ==
  SelectSeq(files, LAMBDA f : f.stamp # 0 /\ f.stamp >= CutoffTime)

\* sum(f.tokens.output for f in recent_interactions)
RECURSIVE TotalOutputTokens(_)
TotalOutputTokens(files) ==
  IF files = << >> THEN 0 ELSE Head(files).output + TotalOutputTokens(Tail(files))

\* total_duration_ms: durations that are present and nonzero, summed
RECURSIVE TotalDurationMs(_)
TotalDurationMs(files) ==
  IF files = << >> THEN 0
  ELSE (IF Head(files).duration_ms # 0 THEN Head(files).duration_ms ELSE 0)
         + TotalDurationMs(Tail(files))

\* The part the three methods share, from `if not recent_interactions` on:
\* total_output_tokens / (total_duration_ms / 1000), or 0.0.
RateOf(recent) ==
  IF recent = << >> THEN Zero
  ELSE IF TotalOutputTokens(recent) = 0 THEN Zero
  ELSE IF TotalDurationMs(recent) > 0
         THEN Quotient(TotalOutputTokens(recent) * 1000, TotalDurationMs(recent))
  ELSE Zero

\* recent_interactions as each method selects it (empty when the method
\* returns before the selection because there are no files).
SelectedBy(v, sessions) ==
  CASE v = "session"  -> RecentByModification(sessions[1])
    [] v = "workflow" -> RecentByModification(AllFiles(sessions))
    [] v = "sqlite"   -> RecentByCreation(AllFiles(sessions))

\* Neither a poll loop, nor the validation, nor the `live` command is running.
MonitorIdle ==
  /\ mode = "none"
  /\ pc = "idle"
  /\ current_workflow = NoWorkflow
  /\ current_workflow_id = 0
  /\ tracked_session_ids = {}
  /\ new_workflow = NoWorkflow
  /\ view = NoView
  /\ console = << >>
  /\ tick = 0
  /\ updates = 0
  /\ tick_start = [id |-> 0, tracked |-> {}]
  /\ tracked_owner = 0
  /\ interrupted_at = "none"
  /\ announced = NoneAnnounced
  /\ env = IdleEnv
  /\ val_pc = "idle"
  /\ validation = NoValidation
  /\ source = "none"
  /\ cli_pc = "idle"
  /\ started = << >>
  /\ exit_code = -1
  /\ refresh_interval = DefaultInterval
  /\ exception = "none"

InitRate ==
  /\ MonitorIdle
  /\ ContextIdle
  /\ GroupIdle
  /\ DashIdle
  /\ all_sessions \in WorkflowInputs
  /\ variant \in Variants
  /\ rate_pc = "call"
  /\ recent_interactions = << >>
  /\ rate = Zero

\* _calculate_output_rate(session), applied to the main session.
CalculateOutputRate ==
  /\ rate_pc = "call"
  /\ variant = "session"
  /\ recent_interactions' = SelectedBy("session", all_sessions)
  /\ rate' = RateOf(recent_interactions')
  /\ rate_pc' = "done"
  /\ UNCHANGED <<loopVars, valVars, runVars, all_sessions, variant,
                 interaction_file, model_pricing, ctx_pc, usage, groupVars, dashVars, histVars>>

\* Variant of CalculateWorkflowOutputRate: only the main session's files are
\* read.
CalculateWorkflowOutputRateMainOnly ==
  /\ rate_pc = "call"
  /\ variant = "workflow"
  /\ recent_interactions' = SelectedBy("session", all_sessions)
  /\ rate' = RateOf(recent_interactions')
  /\ rate_pc' = "done"
  /\ UNCHANGED <<loopVars, valVars, runVars, all_sessions, variant,
                 interaction_file, model_pricing, ctx_pc, usage, groupVars, dashVars, histVars>>

\* _calculate_workflow_output_rate(workflow)
CalculateWorkflowOutputRate ==
  /\ rate_pc = "call"
  /\ variant = "workflow"
  /\ recent_interactions' = SelectedBy("workflow", all_sessions)
  /\ rate' = RateOf(recent_interactions')
  /\ rate_pc' = "done"
  /\ UNCHANGED <<loopVars, valVars, runVars, all_sessions, variant,
                 interaction_file, model_pricing, ctx_pc, usage, groupVars, dashVars, histVars>>

\* _calculate_sqlite_workflow_output_rate(workflow)
CalculateSqliteWorkflowOutputRate ==
  /\ rate_pc = "call"
  /\ variant = "sqlite"
  /\ recent_interactions' = SelectedBy("sqlite", all_sessions)
  /\ rate' = RateOf(recent_interactions')
  /\ rate_pc' = "done"
  /\ UNCHANGED <<loopVars, valVars, runVars, all_sessions, variant,
                 interaction_file, model_pricing, ctx_pc, usage, groupVars, dashVars, histVars>>

NextRate ==
  \/ CalculateOutputRate
  \/ CalculateWorkflowOutputRate
  \/ CalculateSqliteWorkflowOutputRate

SpecRate == InitRate /\ [][NextRate]_vars

\* ----------------------------------------------------- context usage ----
\* context window reported for a model without a pricing entry
DefaultContextWindow == 200000

TokenCounts == {0, 500, 1000, 250000}
ContextWindows == {0, 2000, DefaultContextWindow}

InteractionTokens ==
  [input : TokenCounts, cache_read : TokenCounts, cache_write : TokenCounts]

\* self.pricing_data looked up with interaction_file.model_id
PricingEntries ==
  {[known |-> FALSE, context_window |-> 0]}
    \cup {[known |-> TRUE, context_window |-> w] : w \in ContextWindows}

\* min(100.0, usage_percentage) on fractions
CapAtHundred(p) == IF p[1] > 100 * p[2] THEN <<100, 1>> ELSE p

\* Variant of CalculateContextUsage: the percentage is returned uncapped.
CalculateContextUsageUncapped(f, pricing) ==
  IF ~pricing.known
    THEN [context_size |-> 0, context_window |-> DefaultContextWindow,
          usage_percentage |-> Zero]
    ELSE LET context_window == pricing.context_window
             context_size == f.input + f.cache_read + f.cache_write
             usage_percentage ==
               IF context_window > 0 THEN Quotient(context_size * 100, context_window)
               ELSE Zero
         IN  [context_size |-> context_size, context_window |-> context_window,
              usage_percentage |-> usage_percentage]

\* _calculate_context_usage(interaction_file)
CalculateContextUsage(f, pricing) ==
  IF ~pricing.known
    THEN [context_size |-> 0, context_window |-> DefaultContextWindow,
          usage_percentage |-> Zero]
    ELSE LET context_window == pricing.context_window
             context_size == f.input + f.cache_read + f.cache_write
             usage_percentage ==
               IF context_window > 0 THEN Quotient(context_size * 100, context_window)
               ELSE Zero
         IN  [context_size |-> context_size, context_window |-> context_window,
              usage_percentage |-> CapAtHundred(usage_percentage)]

InitContext ==
  /\ MonitorIdle
  /\ RateIdle
  /\ GroupIdle
  /\ DashIdle
  /\ interaction_file \in InteractionTokens
  /\ model_pricing \in PricingEntries
  /\ ctx_pc = "call"
  /\ usage = [context_size |-> 0, context_window |-> 0, usage_percentage |-> Zero]

ContextUsage ==
  /\ ctx_pc = "call"
  /\ usage' = CalculateContextUsage(interaction_file, model_pricing)
  /\ ctx_pc' = "done"
  /\ UNCHANGED <<loopVars, valVars, runVars, all_sessions, variant, rate_pc,
                 recent_interactions, rate, interaction_file, model_pricing,
                 groupVars, dashVars, histVars>>

NextContext == ContextUsage

SpecContext == InitContext /\ [][NextContext]_vars

\* ---------------------------------------------------- group_sessions ----
\* SessionGrouper.group_sessions(sessions), called by start_monitoring and
\* start_sqlite_workflow_monitoring.  A session is its id, the id of its
\* parent (0: it has none) and the timestamp of its most recent interaction.
Stamps == {1, 2}

\* The id of a session that no list holds.
UnknownId == NumSessions + 1

\* The ids of a set, in ascending order.
RECURSIVE Ascending(_)
Ascending(S) ==
  IF S = {} THEN << >>
  ELSE LET m == CHOOSE x \in S : \A y \in S : x <= y
       IN  <<m>> \o Ascending(S \ {m})

\* Following parent links from session i of `parent` for at most n steps
\* ends at a session without parent, or leaves the set of sessions.
RECURSIVE Terminates(_, _, _)
Terminates(parent, i, n) ==
  \/ parent[i] = 0
  \/ parent[i] \notin DOMAIN parent
  \/ n > 0 /\ Terminates(parent, parent[i], n - 1)

\* The lists a store can hand to the grouper: any subset of the sessions, each
\* with no parent, a parent in the list or a parent that is not in the list;
\* parent links form no cycle.
SessionLists ==
  UNION { { [k \in 1..Cardinality(P) |->
               [session_id |-> Ascending(P)[k],
                parent_id  |-> parent[Ascending(P)[k]],
                last       |-> last[Ascending(P)[k]]]]
            : parent \in { f \in [P -> {0} \cup SessionIds \cup {UnknownId}] :
                             \A i \in P : f[i] # i /\ Terminates(f, i, Cardinality(P)) },
              last \in [P -> Stamps] }
          : P \in SUBSET SessionIds }

\* The session of the list that has id i.
SessionOf(list, i) == CHOOSE x \in {list[k] : k \in DOMAIN list} : x.session_id = i

IdsOf(list) == {list[k].session_id : k \in DOMAIN list}

\* The ultimate root of session i: parent links are followed all the way up;
\* 0 when the chain reaches a parent id that is not in the list.
RECURSIVE UltimateRoot(_, _)
UltimateRoot(list, i) ==
  LET p == SessionOf(list, i).parent_id
  IN  IF p = 0 THEN i
      ELSE IF p \notin IdsOf(list) THEN 0
      ELSE UltimateRoot(list, p)

\* The largest element of a set of timestamps.
MaxOf(S) == CHOOSE x \in S : \A y \in S : y <= x

\* A workflow: its root as main session followed by the root's sub-agents.
WorkflowOf(list, subs, r) ==
  LET members == <<r>> \o subs[r]
  IN  [workflow_id  |-> r,
       main_session |-> r,
       all_sessions |-> members,
       last         |-> MaxOf({SessionOf(list, members[k]).last : k \in DOMAIN members})]

\* Most recent interaction first; equal timestamps by ascending root id.
Precedes(a, b) ==
  \/ a.last > b.last
  \/ a.last = b.last /\ a.workflow_id < b.workflow_id

RECURSIVE Ordered(_)
Ordered(W) ==
  IF W = {} THEN << >>
  ELSE LET first == CHOOSE a \in W : \A b \in W \ {a} : Precedes(a, b)
       IN  <<first>> \o Ordered(W \ {first})

InitGroup ==
  /\ MonitorIdle
  /\ CalcIdle
  /\ DashIdle
  /\ input_sessions \in SessionLists
  /\ roots = << >>
  /\ children = << >>
  /\ sub_agents = << >>
  /\ workflows = << >>
  /\ group_pc = "partition"

\* Step 1: the list is split into roots and children.
GroupPartition ==
  /\ group_pc = "partition"
  /\ LET ids == [k \in DOMAIN input_sessions |-> input_sessions[k].session_id]
         IsRoot(i) == SessionOf(input_sessions, i).parent_id = 0
     IN  /\ roots' = SelectSeq(ids, IsRoot)
         /\ children' = SelectSeq(ids, LAMBDA i : ~IsRoot(i))
         /\ sub_agents' = [r \in {i \in IdsOf(input_sessions) : IsRoot(i)} |-> << >>]
  /\ group_pc' = "resolve"
  /\ UNCHANGED <<input_sessions, workflows>>
  /\ UNCHANGED <<loopVars, valVars, runVars, calcVars, dashVars, histVars>>

\* Step 2: the next child is attached to the sub-agent list of its ultimate
\* root.
GroupAttach ==
  /\ group_pc = "resolve"
  /\ children # << >>
  /\ LET c == Head(children)
         r == UltimateRoot(input_sessions, c)
     IN  /\ r # 0
         /\ sub_agents' = [sub_agents EXCEPT ![r] = Append(@, c)]
  /\ children' = Tail(children)
  /\ UNCHANGED <<input_sessions, roots, workflows, group_pc>>
  /\ UNCHANGED <<loopVars, valVars, runVars, calcVars, dashVars, histVars>>

\* A child that is dropped instead of promoted.
GroupPromoteDrops ==
  /\ group_pc = "resolve"
  /\ children # << >>
  /\ UltimateRoot(input_sessions, Head(children)) = 0
  /\ children' = Tail(children)
  /\ UNCHANGED <<input_sessions, roots, sub_agents, workflows, group_pc>>
  /\ UNCHANGED <<loopVars, valVars, runVars, calcVars, dashVars, histVars>>

\* Orphan policy: a child whose chain of parents does not end at a root is
\* promoted to a root itself.
GroupPromote ==
  /\ group_pc = "resolve"
  /\ children # << >>
  /\ LET c == Head(children)
     IN  /\ UltimateRoot(input_sessions, c) = 0
         /\ roots' = Append(roots, c)
         /\ sub_agents' = [r \in DOMAIN sub_agents \cup {c} |->
                             IF r = c THEN << >> ELSE sub_agents[r]]
  /\ children' = Tail(children)
  /\ UNCHANGED <<input_sessions, workflows, group_pc>>
  /\ UNCHANGED <<loopVars, valVars, runVars, calcVars, dashVars, histVars>>

\* Step 3: the workflows are returned in order.
GroupOrder ==
  /\ group_pc = "resolve"
  /\ children = << >>
  /\ workflows' = Ordered({WorkflowOf(input_sessions, sub_agents, roots[k]) : k \in DOMAIN roots})
  /\ group_pc' = "done"
  /\ UNCHANGED <<input_sessions, roots, children, sub_agents>>
  /\ UNCHANGED <<loopVars, valVars, runVars, calcVars, dashVars, histVars>>

NextGroup ==
  \/ GroupPartition
  \/ GroupAttach
  \/ GroupPromote
  \/ GroupOrder

SpecGroup == InitGroup /\ [][NextGroup]_vars

\* --------------------------------------------------- WorkflowWrapper ----
\* The reference budget of `duration_hours / 5.0`.
BudgetHours == 5

\* A start_time or end_time that is None, and duration_ms = None.
NoTime == 0
NoDuration == -1

\* Times of day of a session's first and last interaction, in minutes.
SessionTimes == {60, 120, 360, 480}

\* TokenUsage(): all four counts are zero.
NoTokens == [input |-> 0, output |-> 0, cache_write |-> 0, cache_read |-> 0]
SessionTokens ==
  {NoTokens, [input |-> 1000, output |-> 100, cache_write |-> 10, cache_read |-> 500]}

\* What the wrapper reads of a session: start_time and end_time are the
\* earliest and latest timestamp of the session's interactions, both None for
\* a session without timed interactions.
SessionAttributes ==
  { [start_time |-> a, end_time |-> b, total_tokens |-> t]
      : a \in SessionTimes \cup {NoTime}, b \in SessionTimes \cup {NoTime}, t \in SessionTokens }

TimedSessions ==
  { x \in SessionAttributes :
      \/ x.start_time = NoTime /\ x.end_time = NoTime
      \/ x.start_time # NoTime /\ x.end_time # NoTime /\ x.start_time <= x.end_time }

WrapperInputs == [1..NumMembers -> TimedSessions]

\* self.total_tokens, accumulated from session.total_tokens
RECURSIVE SumTokens(_)
SumTokens(data) ==
  IF data = << >> THEN NoTokens
  ELSE LET tokens == Head(data).total_tokens
           rest   == SumTokens(Tail(data))
       IN  [input       |-> rest.input + tokens.input,
            output      |-> rest.output + tokens.output,
            cache_write |-> rest.cache_write + tokens.cache_write,
            cache_read  |-> rest.cache_read + tokens.cache_read]

\* min(start_times) and max(end_times)
MinTime(times) == CHOOSE t \in {times[k] : k \in DOMAIN times} :
                    \A k \in DOMAIN times : t <= times[k]
MaxTime(times) == CHOOSE t \in {times[k] : k \in DOMAIN times} :
                    \A k \in DOMAIN times : times[k] <= t

\* Variant of WorkflowWrapper: the first start time and the last end time in
\* all_sessions order are taken for the earliest and the latest.
WorkflowWrapperInOrder(data) ==
  LET start_times == SelectSeq([k \in DOMAIN data |-> data[k].start_time],
                               LAMBDA t : t # NoTime)
      end_times   == SelectSeq([k \in DOMAIN data |-> data[k].end_time],
                               LAMBDA t : t # NoTime)
      start_time  == IF start_times # << >> THEN start_times[1] ELSE NoTime
      end_time    == IF end_times # << >> THEN end_times[Len(end_times)] ELSE NoTime
      duration_ms == (end_time - start_time) * 60 * 1000
      duration_hours == Quotient(duration_ms, 1000 * 60 * 60)
  IN  IF start_time # NoTime /\ end_time # NoTime
        THEN [built |-> TRUE, total_tokens |-> SumTokens(data),
              start_time |-> start_time, end_time |-> end_time,
              duration_ms |-> duration_ms,
              duration_hours |-> duration_hours,
              duration_percentage |->
                CapAtHundred(Quotient(duration_hours[1] * 100, duration_hours[2] * BudgetHours))]
        ELSE [built |-> TRUE, total_tokens |-> SumTokens(data),
              start_time |-> start_time, end_time |-> end_time,
              duration_ms |-> NoDuration,
              duration_hours |-> Zero,
              duration_percentage |-> Zero]

\* WorkflowWrapper(workflow, pricing_data): the attributes __init__ computes
\* from all_sessions.  Times are in minutes, so the timedelta is converted to
\* milliseconds as total_seconds() * 1000.
WorkflowWrapper(data) ==
  LET start_times == SelectSeq([k \in DOMAIN data |-> data[k].start_time],
                               LAMBDA t : t # NoTime)
      end_times   == SelectSeq([k \in DOMAIN data |-> data[k].end_time],
                               LAMBDA t : t # NoTime)
      start_time  == IF start_times # << >> THEN MinTime(start_times) ELSE NoTime
      end_time    == IF end_times # << >> THEN MaxTime(end_times) ELSE NoTime
      duration_ms == (end_time - start_time) * 60 * 1000
      duration_hours == Quotient(duration_ms, 1000 * 60 * 60)
  IN  IF start_time # NoTime /\ end_time # NoTime
        THEN [built |-> TRUE, total_tokens |-> SumTokens(data),
              start_time |-> start_time, end_time |-> end_time,
              duration_ms |-> duration_ms,
              duration_hours |-> duration_hours,
              duration_percentage |->
                CapAtHundred(Quotient(duration_hours[1] * 100, duration_hours[2] * BudgetHours))]
        ELSE [built |-> TRUE, total_tokens |-> SumTokens(data),
              start_time |-> start_time, end_time |-> end_time,
              duration_ms |-> NoDuration,
              duration_hours |-> Zero,
              duration_percentage |-> Zero]

InitWrapper ==
  /\ MonitorIdle
  /\ CalcIdle
  /\ GroupIdle
  /\ session_data \in WrapperInputs
  /\ dash_pc = "construct"
  /\ layouts = << >>
  /\ wrapper = NoWrapper

\* workflow_wrapper = WorkflowWrapper(workflow, self.pricing_data)
ConstructWrapper ==
  /\ dash_pc = "construct"
  /\ wrapper' = WorkflowWrapper(session_data)
  /\ dash_pc' = "constructed"
  /\ UNCHANGED <<session_data, layouts>>
  /\ UNCHANGED <<loopVars, valVars, runVars, calcVars, groupVars, histVars>>

NextWrapper == ConstructWrapper

SpecWrapper == InitWrapper /\ [][NextWrapper]_vars

\* -------------------------------------------------------- dashboards ----
\* _generate_dashboard (a single session), _generate_workflow_dashboard and
\* _generate_sqlite_workflow_dashboard.
\* An interaction is read for its timestamp (modification_time on the file
\* path, time_data.created on the database path, 0 when missing), its output
\* tokens, its duration and its model_id.
ModelIds == {"model-a", "model-x"}
DashboardFiles ==
  [stamp : {0, Now - WindowMinutes, Now}, output : {100, 300}, duration_ms : {2000},
   model_id : ModelIds]
DashboardSessions == UNION {[1..n -> DashboardFiles] : n \in 0..MaxFiles}
DashboardInputs == [1..NumMembers -> DashboardSessions]

\* self.pricing_data: model-a is priced, model-x is not.
PricingData == [m \in {"model-a"} |-> [session_quota |-> 50, context_window |-> 2000]]

\* The attributes of a session that derive from its interactions: the earliest
\* and the latest timestamp, and the token total.
AttributesOf(files) ==
  LET stamps == {files[k].stamp : k \in DOMAIN files} \ {0}
  IN  [start_time   |-> IF stamps = {} THEN NoTime
                        ELSE CHOOSE t \in stamps : \A u \in stamps : t <= u,
       end_time     |-> IF stamps = {} THEN NoTime
                        ELSE CHOOSE t \in stamps : \A u \in stamps : u <= t,
       total_tokens |-> [NoTokens EXCEPT !.output = TotalOutputTokens(files)]]

\* Variant of MostRecent: among interactions with the largest timestamp the
\* last one is taken.
MostRecentLast(files) ==
  IF files = << >> THEN << >>
  ELSE LET k == CHOOSE i \in DOMAIN files :
                  /\ \A j \in DOMAIN files : files[j].stamp <= files[i].stamp
                  /\ \A j \in (i + 1)..Len(files) : files[j].stamp < files[i].stamp
       IN  <<files[k]>>

\* max(all_files, key=...): the first interaction with the largest timestamp;
\* None (the empty sequence) when there are no interactions.
MostRecent(files) ==
  IF files = << >> THEN << >>
  ELSE LET k == CHOOSE i \in DOMAIN files :
                  /\ \A j \in DOMAIN files : files[j].stamp <= files[i].stamp
                  /\ \A j \in 1..(i - 1) : files[j].stamp < files[i].stamp
       IN  <<files[k]>>

\* quota and context_window: those of the recent file's model when it is in
\* pricing_data, otherwise None and 200000.
QuotaOf(recent_file) ==
  IF recent_file # << >> /\ recent_file[1].model_id \in DOMAIN PricingData
    THEN <<PricingData[recent_file[1].model_id].session_quota>>
    ELSE << >>

\* Variant of ContextWindowOf: the default is used only when there is no
\* recent file; a model without pricing gives no context window.
ContextWindowOfRecentOnly(recent_file) ==
  IF recent_file = << >> THEN DefaultContextWindow
  ELSE IF recent_file[1].model_id \in DOMAIN PricingData
    THEN PricingData[recent_file[1].model_id].context_window
    ELSE 0

ContextWindowOf(recent_file) ==
  IF recent_file # << >> /\ recent_file[1].model_id \in DOMAIN PricingData
    THEN PricingData[recent_file[1].model_id].context_window
    ELSE DefaultContextWindow

\* The arguments of create_dashboard_layout; _generate_dashboard reads the
\* files of its session only and passes no workflow.
Layout(v, sessions, data, workflow) ==
  LET recent_file == MostRecent(IF v = "session" THEN sessions[1] ELSE AllFiles(sessions))
  IN  [session        |-> [files |-> sessions[1], attributes |-> data[1]],
       recent_file    |-> recent_file,
       pricing_data   |-> PricingData,
       burn_rate      |-> RateOf(SelectedBy(v, sessions)),
       quota          |-> QuotaOf(recent_file),
       context_window |-> ContextWindowOf(recent_file),
       workflow       |-> workflow]

InitDashboard ==
  /\ MonitorIdle
  /\ ContextIdle
  /\ GroupIdle
  /\ all_sessions \in DashboardInputs
  /\ variant \in Variants
  /\ rate_pc = "idle"
  /\ recent_interactions = << >>
  /\ rate = Zero
  /\ session_data = [k \in DOMAIN all_sessions |-> AttributesOf(all_sessions[k])]
  /\ dash_pc = "first"
  /\ layouts = << >>
  /\ wrapper = NoWrapper

\* _generate_dashboard(session), applied to the main session.
GenerateDashboard ==
  /\ variant = "session"
  /\ dash_pc \in {"first", "second"}
  /\ layouts' = Append(layouts, Layout("session", all_sessions, session_data, << >>))
  /\ dash_pc' = IF dash_pc = "first" THEN "second" ELSE "done"
  /\ UNCHANGED <<session_data, wrapper>>
  /\ UNCHANGED <<loopVars, valVars, runVars, calcVars, groupVars, histVars>>

\* _generate_workflow_dashboard(workflow)
GenerateWorkflowDashboard ==
  /\ variant = "workflow"
  /\ dash_pc \in {"first", "second"}
  /\ layouts' = Append(layouts,
                       Layout("workflow", all_sessions, session_data,
                              [all_sessions |-> all_sessions, attributes |-> session_data]))
  /\ dash_pc' = IF dash_pc = "first" THEN "second" ELSE "done"
  /\ UNCHANGED <<session_data, wrapper>>
  /\ UNCHANGED <<loopVars, valVars, runVars, calcVars, groupVars, histVars>>

\* Variant of GenerateSqliteWorkflowDashboard: all_files is the main session's
\* own list of files, which the loop then extends with the other sessions'.
GenerateSqliteWorkflowDashboardAliased ==
  /\ variant = "sqlite"
  /\ dash_pc \in {"first", "second"}
  /\ all_sessions' = [all_sessions EXCEPT ![1] = AllFiles(all_sessions)]
  /\ wrapper' = WorkflowWrapper(session_data)
  /\ layouts' = Append(layouts, Layout("sqlite", all_sessions', session_data, wrapper'))
  /\ dash_pc' = IF dash_pc = "first" THEN "second" ELSE "done"
  /\ UNCHANGED <<variant, rate_pc, recent_interactions, rate, interaction_file,
                 model_pricing, ctx_pc, usage>>
  /\ UNCHANGED session_data
  /\ UNCHANGED <<loopVars, valVars, runVars, groupVars, histVars>>

\* _generate_sqlite_workflow_dashboard(workflow)
GenerateSqliteWorkflowDashboard ==
  /\ variant = "sqlite"
  /\ dash_pc \in {"first", "second"}
  /\ wrapper' = WorkflowWrapper(session_data)
  /\ layouts' = Append(layouts, Layout("sqlite", all_sessions, session_data, wrapper'))
  /\ dash_pc' = IF dash_pc = "first" THEN "second" ELSE "done"
  /\ UNCHANGED session_data
  /\ UNCHANGED <<loopVars, valVars, runVars, calcVars, groupVars, histVars>>

NextDashboard ==
  \/ GenerateDashboard
  \/ GenerateWorkflowDashboard
  \/ GenerateSqliteWorkflowDashboard

SpecDashboard == InitDashboard /\ [][NextDashboard]_vars

\* ------------------------------------------------------------ claims ----
Count(sig) == Cardinality({ i \in 1..Len(console) : console[i].sig = sig })
Signalled(sig) == { console[i].id : i \in { j \in 1..Len(console) : console[j].sig = sig } }

\* The iteration has run to its sleep.
TickDone == pc = "sleep"

\* How the iteration's query result compares with the state it met.
NewWorkflowCase ==
  /\ new_workflow # NoWorkflow
  /\ new_workflow.workflow_id # tick_start.id
  /\ new_workflow.workflow_id \notin tick_start.tracked
FlappingCase ==
  /\ new_workflow # NoWorkflow
  /\ new_workflow.workflow_id # tick_start.id
  /\ new_workflow.workflow_id \in tick_start.tracked
SameCase ==
  /\ new_workflow # NoWorkflow
  /\ new_workflow.workflow_id = tick_start.id

\* The pair (workflow, tracked id, tracked set) all come from one workflow.
PairConsistent ==
  /\ current_workflow.workflow_id = TrackedId
  /\ tracked_owner = TrackedId

\* C1: in both loops, a tick whose most-recent workflow has an id that differs
\* from the tracked id and is not a tracked session id ends with the tracked id
\* equal to the new id, the tracked set equal to exactly the new workflow's
\* session ids, and exactly one "New workflow detected" signal (for that id).
C1_NewWorkflowTransition ==
  (TickDone /\ NewWorkflowCase) =>
     /\ TrackedId = new_workflow.workflow_id
     /\ tracked_session_ids = new_workflow.all_sessions
     /\ Count("New workflow detected") = 1
     /\ Signalled("New workflow detected") = {new_workflow.workflow_id}

\* A new-workflow tick that dropped at least one id of the old workflow.
C1_Witness ==
  /\ TickDone /\ NewWorkflowCase
  /\ tick_start.tracked \ new_workflow.all_sessions # {}
  /\ Count("New workflow detected") = 1

\* C2: a tick whose most-recent workflow has an id that differs from the
\* tracked id but is a tracked session id leaves the tracked id and the tracked
\* set as they were and emits neither transition signal.
C2_FlappingGuard ==
  (TickDone /\ FlappingCase) =>
     /\ TrackedId = tick_start.id
     /\ tracked_session_ids = tick_start.tracked
     /\ Count("New workflow detected") = 0
     /\ Count("New sub-agent detected") = 0

\* A flapping tick whose result carries a session id that is not tracked.
C2_Witness ==
  /\ TickDone /\ FlappingCase
  /\ new_workflow.all_sessions \ tick_start.tracked # {}
  /\ tracked_session_ids = tick_start.tracked

\* C3: a tick whose most-recent workflow has the tracked id emits one "New
\* sub-agent detected" signal for each session id of the loaded workflow that
\* was not tracked, and for no other id; each such id is tracked afterwards and
\* the tracked workflow id is the same.
C3_NewSubAgents ==
  (TickDone /\ SameCase) =>
     LET added == new_workflow.all_sessions \ tick_start.tracked
     IN  /\ Signalled("New sub-agent detected") = added
         /\ Count("New sub-agent detected") = Cardinality(added)
         /\ added \subseteq tracked_session_ids
         /\ TrackedId = tick_start.id
         /\ Count("New workflow detected") = 0

\* A same-id tick that announced two sub-agents.
C3_Witness ==
  /\ TickDone /\ SameCase
  /\ Cardinality(new_workflow.all_sessions \ tick_start.tracked) = 2
  /\ Count("New sub-agent detected") = 2

\* C4: every iteration calls live.update exactly once, with the dashboard of
\* the current workflow, before it sleeps: no update has happened earlier in
\* the iteration, and exactly one has happened when the sleep begins.
C4_OneUpdatePerTick ==
  /\ pc \in LoopPcs \ {"sleep"} => updates = 0
  /\ pc = "sleep" => (updates = 1 /\ view = Dashboard(current_workflow))

\* An iteration with an empty query result reached its sleep with one update.
C4_Witness ==
  /\ pc = "sleep" /\ tick > 1 /\ new_workflow = NoWorkflow /\ updates = 1

\* C5: after a tick whose query returned a workflow, the published view is
\* computed from the data loaded by that tick's query.
C5_MetricsLive ==
  (TickDone /\ new_workflow # NoWorkflow) => view.loaded = tick

\* C6: a step that takes the method out of the loop is a KeyboardInterrupt,
\* and at every loop position (short of the explored bound) the loop itself
\* has a next step to take.
C6_NeverLeavesLoop ==
  [][ /\ (pc \in LoopPcs /\ pc' \notin LoopPcs) =>
           (pc' = "stopped" /\ interrupted_at' = pc)
      /\ (pc \in LoopPcs /\ ~(pc = "sleep" /\ tick = MaxTicks)) =>
           ENABLED (\/ Query \/ NoResult \/ FlappingGuard \/ AdoptWorkflow
                    \/ AdoptId \/ AdoptIds \/ AdoptPrint \/ SameUpdate
                    \/ SameAnnounce \/ SameAssign \/ Update \/ Sleep) ]_vars

\* The loop has come round to its next query after an iteration whose query
\* returned nothing.
C6_Witness ==
  /\ pc = "query" /\ tick > 1 /\ interrupted_at = "none"
  /\ new_workflow = NoWorkflow

C9_NeverRaises ==
  val_pc = "done" =>
     /\ validation.kind = "returned"
     /\ {"valid", "issues", "warnings", "info"} \subseteq DOMAIN validation

\* A data source the claim counts as available.
SqliteAvailable == env.db_found /\ env.stats_exists
FileStorageExists == ResolvedBasePath(env) # "" /\ env.fs[ResolvedBasePath(env)] = "dir"

\* C10: the result has valid = TRUE exactly when issues is empty, and exactly
\* when a data source is available; with no database found and no storage
\* directory it is invalid with the "No session data source found" issue;
\* empty pricing data adds a warning only.
C10_ValidIffSourceAvailable ==
  val_pc = "done" =>
     /\ validation.kind = "returned"
     /\ validation.valid <=> (Len(validation.issues) = 0)
     /\ validation.valid <=> (SqliteAvailable \/ FileStorageExists)
     /\ (~env.db_found /\ ~FileStorageExists) =>
          (~validation.valid /\ validation.issues = <<NoSourceIssue>>)
     /\ env.pricing_empty =>
          \E i \in 1..Len(validation.warnings) : validation.warnings[i] = NoPricingWarning


\* C11: the file-storage path that is probed and reported is the base_path
\* argument when one is given, and the default storage path otherwise: the
\* reported availability is that of this path alone, and a reported
\* info.files.path and session count are this path's.
C11_PathResolution ==
  (val_pc = "done" /\ validation.kind = "returned") =>
     LET probed == IF env.base_path # "" THEN env.base_path ELSE env.default_path
         files  == validation.info["files"]
     IN  /\ files.available <=> (probed # "" /\ env.fs[probed] = "dir")
         /\ files.available =>
              (files.path = probed /\ files.sessions = env.session_dirs[probed])

\* An explicit path was given while the default path is also a directory with
\* a different number of sessions; the explicit one is reported.
C11_Witness ==
  /\ val_pc = "done" /\ validation.kind = "returned"
  /\ env.base_path = "explicit" /\ env.default_path = "default"
  /\ env.fs["explicit"] = "dir" /\ env.fs["default"] = "dir"
  /\ env.session_dirs["explicit"] # env.session_dirs["default"]
  /\ validation.info["files"].path = "explicit"

\* The store is empty: no database is found and the storage directory exists
\* without any session directory.
EmptyStoreCase ==
  /\ ~env.db_found
  /\ FileStorageExists
  /\ env.session_dirs[ResolvedBasePath(env)] = 0

\* C12 as stated: an empty store gives a not-valid result that carries an issue
\* or a warning.
C12_EmptyStoreInvalid ==
  (val_pc = "done" /\ EmptyStoreCase) =>
     /\ validation.kind = "returned"
     /\ ~validation.valid
     /\ Len(validation.issues) + Len(validation.warnings) > 0

\* C12 amended: an empty store gives a valid result without issues; the file
\* source is reported available with sessions = 0, and the only warning there
\* can be is the pricing one.
C12_EmptyStoreValid ==
  (val_pc = "done" /\ EmptyStoreCase) =>
     /\ validation.kind = "returned"
     /\ validation.valid
     /\ validation.issues = << >>
     /\ validation.info["files"] =
          [available |-> TRUE, path |-> ResolvedBasePath(env), sessions |-> 0]
     /\ validation.warnings =
          (IF env.pricing_empty THEN <<NoPricingWarning>> ELSE << >>)

\* An empty default storage directory was validated with pricing data present.
C12_Witness ==
  /\ val_pc = "done" /\ EmptyStoreCase
  /\ env.base_path = "" /\ ~env.pricing_empty
  /\ validation.kind = "returned" /\ validation.valid
  /\ validation.info["files"].sessions = 0

\* C15: with a non-positive refresh_interval the poll loop fails at startup:
\* no iteration's re-query, classification, update or sleep ever runs.
C15_NonPositiveIntervalFailsAtStartup ==
  refresh_interval <= 0 =>
     /\ tick_start = [id |-> 0, tracked |-> {}]
     /\ new_workflow = NoWorkflow
     /\ updates = 0

\* C13: in a run of the `live` command at most one poll loop is started, the
\* loop that runs is the one that was started, and no loop runs before one is
\* started; this stays so whatever the chosen store returns afterwards.
C13_OneSourcePerRun ==
  /\ Len(started) <= 1
  /\ Len(started) = 0 => (pc = "idle" /\ mode = "none")
  /\ Len(started) = 1 => (mode = started[1] /\ pc # "idle")

\* The SQLite loop found no data at startup and returned; file storage was
\* available, and the command ended without starting the file loop.
C13_Witness ==
  /\ cli_pc = "exit" /\ started = <<"sqlite">> /\ pc = "returned"
  /\ env.fs["explicit"] = "dir"
  /\ validation.info["files"].available

\* C14: with --source auto, once the command has selected, the SQLite loop is
\* the one started whenever the SQLite database is available, and the file
\* loop is started only when SQLite is unavailable and file storage is
\* available.
C14_AutoPrefersSqlite ==
  (source = "auto" /\ cli_pc \in {"running", "exit"}) =>
     /\ SqliteAvailable => started = <<"sqlite">>
     /\ started = <<"files">> => (~SqliteAvailable /\ FileStorageExists)
     /\ (~env.db_found /\ FileStorageExists) => started = <<"files">>

\* --source auto with both stores available started the SQLite loop.
C14_Witness ==
  /\ source = "auto" /\ cli_pc = "running"
  /\ SqliteAvailable /\ FileStorageExists
  /\ started = <<"sqlite">> /\ mode = "sqlite"

\* The trailing 5-minute window ending at "now": not older than now minus
\* 5 minutes and not later than now.
InWindow(f) == f.stamp >= Now - WindowMinutes /\ f.stamp <= Now

\* The interactions of the window, across all member sessions (for the
\* session variant: of that session).
WindowInteractions ==
  SelectSeq(IF variant = "session" THEN all_sessions[1] ELSE AllFiles(all_sessions),
            InWindow)

\* C16: the interactions that count toward the burn rate are exactly those,
\* across all member sessions, whose timestamp lies within the trailing
\* 5-minute window ending at now; if no interaction lies in the window the
\* rate is 0.
C16_WindowSelection ==
  rate_pc = "done" =>
     /\ recent_interactions = WindowInteractions
     /\ WindowInteractions = << >> => rate[1] = 0

\* C17: when the window is non-empty and the summed recorded duration is
\* positive, the rate equals the sum of the output tokens of the window
\* interactions divided by the sum of their recorded duration_ms / 1000, in
\* the session, workflow and SQLite-workflow variants.
C17_RateValue ==
  (/\ rate_pc = "done"
   /\ WindowInteractions # << >>
   /\ TotalDurationMs(WindowInteractions) > 0) =>
     rate = Quotient(TotalOutputTokens(WindowInteractions) * 1000,
                     TotalDurationMs(WindowInteractions))

\* C18: the rate is 0 when the window interactions have nonzero output tokens
\* but zero total recorded duration, it is 0 when the output tokens in the
\* window sum to 0, and it is never negative (nor the result of a division
\* by zero).
C18_NoDivisionByZero ==
  rate_pc = "done" =>
     /\ (TotalOutputTokens(WindowInteractions) > 0
           /\ TotalDurationMs(WindowInteractions) = 0) => rate[1] = 0
     /\ TotalOutputTokens(WindowInteractions) = 0 => rate[1] = 0
     /\ rate[1] >= 0
     /\ rate[2] > 0


\* input + cache_read + cache_write of the interaction under analysis
InputSideTokens ==
  interaction_file.input + interaction_file.cache_read + interaction_file.cache_write

\* min(100, size / window * 100) for a positive window
PercentageOf(size, window) ==
  IF size >= window THEN <<100, 1>> ELSE Quotient(size * 100, window)

\* C19: for an interaction whose model is in the pricing table, context_size
\* is input + cache_read + cache_write and usage_percentage is
\* min(100, context_size / context_window * 100), so the percentage is always
\* within [0, 100].
C19_KnownModelUsage ==
  (ctx_pc = "done" /\ model_pricing.known) =>
     /\ usage.context_size = InputSideTokens
     /\ usage.context_window = model_pricing.context_window
     /\ model_pricing.context_window > 0 =>
          usage.usage_percentage
            = PercentageOf(InputSideTokens, model_pricing.context_window)
     /\ usage.usage_percentage[2] > 0
     /\ usage.usage_percentage[1] >= 0
     /\ usage.usage_percentage[1] <= 100 * usage.usage_percentage[2]

\* input=1000, cache_read=500, cache_write=0 against a window of 2000 gives 75.
C19_Witness ==
  /\ ctx_pc = "done"
  /\ model_pricing = [known |-> TRUE, context_window |-> 2000]
  /\ interaction_file = [input |-> 1000, cache_read |-> 500, cache_write |-> 0]
  /\ usage = [context_size |-> 1500, context_window |-> 2000,
              usage_percentage |-> <<75, 1>>]

\* C20: for an interaction whose model is not in the pricing table,
\* context_window defaults to 200000, context_size is still
\* input + cache_read + cache_write, and usage_percentage is
\* min(100, context_size / 200000 * 100).
C20_UnknownModelUsage ==
  (ctx_pc = "done" /\ ~model_pricing.known) =>
     /\ usage.context_window = DefaultContextWindow
     /\ usage.context_size = InputSideTokens
     /\ usage.usage_percentage = PercentageOf(InputSideTokens, DefaultContextWindow)


\* C23: in a tick whose query returned no workflow, every step short of an
\* interrupt carries the loop on (classification to render, render to sleep)
\* and leaves the tracked workflow, the tracked id, the tracked set, the
\* displayed view and the console as they were; the render publishes once.
C23_EmptySnapshotTolerated ==
  [][ (new_workflow = NoWorkflow /\ pc \in {"classify", "update"} /\ pc' # "stopped") =>
        /\ pc' = (IF pc = "classify" THEN "update" ELSE "sleep")
        /\ UNCHANGED <<current_workflow, current_workflow_id, tracked_session_ids,
                       view, console>>
        /\ pc = "update" => updates' = 1 ]_vars

\* The second iteration's query returned nothing and the iteration reached its
\* sleep showing the first iteration's snapshot of a two-session workflow.
C23_Witness ==
  /\ TickDone /\ tick = 2 /\ new_workflow = NoWorkflow
  /\ view.loaded = 1 /\ updates = 1 /\ console = << >>
  /\ Cardinality(tracked_session_ids) = 2
  /\ tracked_session_ids = tick_start.tracked /\ TrackedId = tick_start.id

\* C24: once the first load has yielded a workflow the loop is tracking it:
\* the tracked id is that workflow's id and the tracked set is exactly the
\* session ids of its all_sessions.  When the first load yields nothing the
\* method has printed one error and returned with nothing tracked, no view
\* published and no iteration run; and no iteration runs without a tracked
\* workflow.
C24_StartupTransition ==
  /\ pc = "live" =>
       /\ current_workflow \in Workflows(0)
       /\ TrackedId = current_workflow.workflow_id
       /\ tracked_session_ids = current_workflow.all_sessions
       /\ Count("Starting live monitoring of workflow") = 1
       /\ tick = 0 /\ view = NoView
  /\ pc = "returned" =>
       /\ current_workflow = NoWorkflow
       /\ TrackedId = 0
       /\ tracked_session_ids = {}
       /\ view = NoView
       /\ tick = 0 /\ updates = 0
       /\ Len(console) = 1 /\ console[1].sig \in StartErrors
  /\ tick >= 1 => (current_workflow # NoWorkflow /\ TrackedId # 0)

\* The SQLite loop starts tracking a workflow of three sessions.
C24_Witness ==
  /\ pc = "live" /\ mode = "sqlite"
  /\ current_workflow_id = current_workflow.workflow_id
  /\ Cardinality(tracked_session_ids) = 3
  /\ tracked_session_ids = current_workflow.all_sessions

\* The most-recent workflow has a root id that is neither the tracked id nor a
\* tracked session id, and the tracked main session is one of its members.
ReplacedMainCase ==
  /\ NewWorkflowCase
  /\ tick_start.id \in new_workflow.all_sessions

\* C26: a tick that finds the tracked main session as a sub-agent of a
\* brand-new root R is classified as "new workflow detected": the tracked id
\* becomes R and the tracked set becomes R's members, the old main session id
\* among them.
C26_ReplacedMainSession ==
  (TickDone /\ ReplacedMainCase) =>
     /\ TrackedId = new_workflow.workflow_id
     /\ tracked_session_ids = new_workflow.all_sessions
     /\ tick_start.id \in tracked_session_ids
     /\ Signalled("New workflow detected") = {new_workflow.workflow_id}
     /\ Count("New sub-agent detected") = 0
     /\ view.workflow_id = new_workflow.workflow_id

\* The tracked main session and its sub-agent both reappear under a new root.
C26_Witness ==
  /\ TickDone /\ ReplacedMainCase
  /\ tick_start.tracked \subseteq new_workflow.all_sessions
  /\ Cardinality(tick_start.tracked) = 2
  /\ TrackedId = new_workflow.workflow_id

\* Positions of the classification of a query result, with their order.
ClassifyPcs == {"classify", "adopt_id", "adopt_ids", "adopt_print", "same_subs", "same_assign"}
ClassifyRank(p) ==
  CASE p = "classify" -> 1
    [] p \in {"adopt_id", "same_subs"} -> 2
    [] p \in {"adopt_ids", "same_assign"} -> 3
    [] p = "adopt_print" -> 4

\* C27: the loop is a strict sequence of cycles query -> classify -> render
\* -> sleep.  A step of the loop that is not an interrupt goes from the query
\* to the classification, forward within the classification or on to the
\* render, from the render (which publishes the dashboard of the workflow the
\* classification left) to the sleep, and from the sleep to the next cycle's
\* query; a query starts only after Live is entered or after a sleep, and only
\* the query changes the query result.
C27_TickOrdering ==
  [][ /\ (pc \in LoopPcs /\ pc' # pc /\ pc' # "stopped") =>
           /\ pc = "query" => pc' = "classify"
           /\ pc \in ClassifyPcs =>
                \/ pc' = "update"
                \/ pc' \in ClassifyPcs /\ ClassifyRank(pc') > ClassifyRank(pc)
           /\ pc = "update" =>
                /\ pc' = "sleep"
                /\ current_workflow' = current_workflow
                /\ view' = Dashboard(current_workflow)
           /\ pc = "sleep" => (pc' = "query" /\ tick' = tick + 1)
           /\ pc # "sleep" => tick' = tick
      /\ (pc' = "query" /\ pc # "query") => pc \in {"live", "sleep"}
      /\ new_workflow' # new_workflow => (pc = "query" /\ pc' = "classify")
      /\ view' # view => pc \in {"live", "update"} ]_vars

\* Two whole cycles have run and the third one is about to query; the display
\* holds what the second cycle rendered.
C27_Witness ==
  /\ pc = "query" /\ tick = 3 /\ interrupted_at = "none"
  /\ updates = 0 /\ view.loaded = 2
  /\ view = Dashboard(current_workflow)

\* C28: on a tick whose most-recent workflow has the tracked id, every session
\* id tracked before the tick is still tracked after it.
C28_TrackedSetOnlyGrows ==
  (TickDone /\ SameCase) => tick_start.tracked \subseteq tracked_session_ids

\* Startup is over or an iteration has run to its sleep.
Settled == pc \in {"live", "query", "sleep"}

\* C29: after startup and after every tick the tracked workflow id is a
\* member of the tracked session-id set.
C29_TrackedIdIsTracked ==
  Settled => TrackedId \in tracked_session_ids

\* A same-id tick replaced the tracked set and the tracked id is still in it.
C29_Witness ==
  /\ TickDone /\ SameCase
  /\ tracked_session_ids # tick_start.tracked
  /\ TrackedId \in tracked_session_ids
  /\ Cardinality(tracked_session_ids) >= 2

\* C30: once a view is displayed, after startup and after every tick, every
\* session id of the displayed workflow is tracked and the displayed
\* workflow's id is the tracked workflow id.
C30_DisplayedIsTracked ==
  (pc \in {"query", "sleep"}) =>
     /\ view.sessions \subseteq tracked_session_ids
     /\ view.workflow_id = TrackedId

\* A same-id tick displays a workflow that has fewer sessions than are
\* tracked.
C30_Witness ==
  /\ TickDone /\ SameCase /\ view.loaded = tick
  /\ view.sessions # tracked_session_ids
  /\ view.sessions \subseteq tracked_session_ids
  /\ view.workflow_id = TrackedId

\* How many times session id i occurs in the all_sessions lists of `workflows`.
RECURSIVE Occurrences(_, _)
Occurrences(ws, i) ==
  IF ws = << >> THEN 0
  ELSE Cardinality({k \in DOMAIN Head(ws).all_sessions : Head(ws).all_sessions[k] = i})
       + Occurrences(Tail(ws), i)

RECURSIVE Members(_)
Members(ws) ==
  IF ws = << >> THEN 0 ELSE Len(Head(ws).all_sessions) + Members(Tail(ws))

\* C25: the workflows the grouper returns partition its input: every session
\* of the input list is in the all_sessions of exactly one returned workflow,
\* once, and the workflows hold nothing else; so no session id belongs to two
\* of the workflows a loop chooses between, and none is dropped.
C25_GrouperPartitions ==
  group_pc = "done" =>
    /\ \A i \in IdsOf(input_sessions) : Occurrences(workflows, i) = 1
    /\ Members(workflows) = Len(input_sessions)
    /\ \A a, b \in DOMAIN workflows :
         a # b => {workflows[a].all_sessions[k] : k \in DOMAIN workflows[a].all_sessions}
                  \cap {workflows[b].all_sessions[k] : k \in DOMAIN workflows[b].all_sessions} = {}

\* Three sessions were grouped: a root with its sub-agent, and an orphan whose
\* parent is not in the list, promoted to a workflow of its own.
C25_Witness ==
  /\ group_pc = "done"
  /\ Len(input_sessions) = 3
  /\ Len(workflows) = 2
  /\ \E a \in DOMAIN workflows : Len(workflows[a].all_sessions) = 2
  /\ \E k \in DOMAIN input_sessions :
       /\ input_sessions[k].parent_id # 0
       /\ input_sessions[k].parent_id \notin IdsOf(input_sessions)

\* The start and end times the sessions of the wrapped workflow have.
SessionStarts == {session_data[k].start_time : k \in DOMAIN session_data} \ {NoTime}
SessionEnds == {session_data[k].end_time : k \in DOMAIN session_data} \ {NoTime}

\* min(100, minutes / 60 / 5 * 100): a span of m minutes as a percentage of
\* the five-hour budget.
BudgetPercentage(m) == IF m >= 300 THEN <<100, 1>> ELSE Quotient(m, 3)

\* C22: the wrapper's start_time is the minimum session start time and its
\* end_time the maximum session end time; duration_percentage is
\* min(100, (end_time - start_time in hours) / 5 * 100), and it is 0 with
\* duration_ms absent when no session has a start or end time; it always lies
\* within [0, 100].
C22_DurationBudget ==
  wrapper.built =>
    /\ SessionStarts # {} =>
         /\ wrapper.start_time \in SessionStarts
         /\ \A t \in SessionStarts : wrapper.start_time <= t
    /\ SessionEnds # {} =>
         /\ wrapper.end_time \in SessionEnds
         /\ \A t \in SessionEnds : t <= wrapper.end_time
    /\ (SessionStarts # {} /\ SessionEnds # {}) =>
         wrapper.duration_percentage = BudgetPercentage(wrapper.end_time - wrapper.start_time)
    /\ (SessionStarts = {} /\ SessionEnds = {}) =>
         /\ wrapper.duration_percentage = Zero
         /\ wrapper.duration_ms = NoDuration
    /\ wrapper.duration_percentage[1] >= 0
    /\ wrapper.duration_percentage[1] <= 100 * wrapper.duration_percentage[2]

\* A workflow whose later-listed session started first spans four hours from
\* 2:00 to 6:00, 80% of the budget.
C22_Witness ==
  /\ dash_pc = "constructed"
  /\ wrapper.built
  /\ session_data[1].start_time = 360
  /\ session_data[2].start_time = 120
  /\ wrapper.start_time = 120
  /\ wrapper.end_time = 360
  /\ wrapper.duration_ms = 14400000
  /\ wrapper.duration_percentage = <<80, 1>>

StableCase == SameCase /\ new_workflow.all_sessions \subseteq tick_start.tracked

\* C32: a tick whose most-recent workflow has the tracked id and holds no
\* session id outside the tracked set prints nothing and leaves the tracked id
\* and the tracked set as they were; and no tick prints both a "New workflow
\* detected" and a "New sub-agent detected" signal.
C32_StableSilentSignalsExclusive ==
  /\ (TickDone /\ StableCase) =>
       /\ console = << >>
       /\ TrackedId = tick_start.id
       /\ tracked_session_ids = tick_start.tracked
  /\ pc \in LoopPcs =>
       ~(Count("New workflow detected") > 0 /\ Count("New sub-agent detected") > 0)

\* A workflow with two sub-agents was adopted: they are tracked and only the
\* workflow was announced.
C32_Witness ==
  /\ TickDone /\ NewWorkflowCase
  /\ Cardinality(new_workflow.all_sessions) = 3
  /\ tracked_session_ids = new_workflow.all_sessions
  /\ Count("New workflow detected") = 1
  /\ Count("New sub-agent detected") = 0

\* C31: while the same workflow id stays tracked, no session id is signalled
\* as "New sub-agent detected" more than once, whatever the queries return
\* (also when a sub-agent leaves the result and comes back).
C31_AnnouncedOnce == \A i \in SessionIds : announced[i] <= 1

\* The continuity state machine, without reference to a loop: from the tracked
\* id and set that met the result, the tracked id and set and the signals the
\* tick ends with.
ContinuityStep(id, tracked, result) ==
  IF result = NoWorkflow
    THEN [id |-> id, tracked |-> tracked, workflows |-> {}, sub_agents |-> {}]
  ELSE IF result.workflow_id # id
    THEN IF result.workflow_id \in tracked
           THEN [id |-> id, tracked |-> tracked, workflows |-> {}, sub_agents |-> {}]
           ELSE [id |-> result.workflow_id, tracked |-> result.all_sessions,
                 workflows |-> {result.workflow_id}, sub_agents |-> {}]
  ELSE LET added == result.all_sessions \ tracked
       IN  [id |-> id,
            tracked |-> IF added = {} THEN tracked ELSE result.all_sessions,
            workflows |-> {}, sub_agents |-> added]

\* What the running tick is to end with.
TickResult == ContinuityStep(tick_start.id, tick_start.tracked, new_workflow)

\* C33: the file loop and the SQLite loop are the same continuity state
\* machine: started on the same workflow and fed the same result per tick,
\* each tick takes the tracked id and the tracked set through the same states
\* and ends with the same tracked id, tracked set and "New workflow detected"
\* / "New sub-agent detected" signals, which depend on the tracked state and
\* the result only, not on the loop.
C33_LoopsAreOneMachine ==
  /\ pc = "live" =>
       /\ TrackedId = current_workflow.workflow_id
       /\ tracked_session_ids = current_workflow.all_sessions
  /\ pc \in LoopPcs \ {"query"} =>
       <<TrackedId, tracked_session_ids>> \in
         { <<tick_start.id, tick_start.tracked>>,
           <<TickResult.id, tick_start.tracked>>,
           <<TickResult.id, TickResult.tracked>> }
  /\ TickDone =>
       /\ TrackedId = TickResult.id
       /\ tracked_session_ids = TickResult.tracked
       /\ Signalled("New workflow detected") = TickResult.workflows
       /\ Count("New workflow detected") = Cardinality(TickResult.workflows)
       /\ Signalled("New sub-agent detected") = TickResult.sub_agents
       /\ Count("New sub-agent detected") = Cardinality(TickResult.sub_agents)

\* The SQLite loop, in its third tick and with a sub-agent announced earlier,
\* met a workflow whose id is a tracked sub-agent and kept its state.
C33_Witness ==
  /\ mode = "sqlite" /\ TickDone /\ tick = 3
  /\ FlappingCase
  /\ TrackedId = tick_start.id
  /\ tracked_session_ids = tick_start.tracked
  /\ announced # NoneAnnounced

\* The interactions a dashboard selects from: those of the session, or of all
\* sessions of the workflow in all_sessions order.
DashboardFilesRead ==
  IF variant = "session" THEN all_sessions[1] ELSE AllFiles(all_sessions)

\* C35: the interaction the workflow dashboards hand to the display has the
\* largest timestamp among all interactions of all sessions of the workflow
\* (a missing creation time, 0, ranking oldest), and is the first such
\* interaction in all_sessions order; it is absent exactly when the workflow
\* has no interaction.
C35_MostRecentSelected ==
  \A n \in DOMAIN layouts :
    variant \in {"workflow", "sqlite"} =>
      LET files  == AllFiles(all_sessions)
          recent == layouts[n].recent_file
          latest == {k \in DOMAIN files : \A j \in DOMAIN files : files[j].stamp <= files[k].stamp}
      IN  /\ recent = << >> <=> files = << >>
          /\ files # << >> =>
               recent = <<files[CHOOSE k \in latest : \A j \in latest : k <= j]>>

\* Two sessions have one interaction each with the same timestamp and different
\* models: the database dashboard shows the main session's.
C35_Witness ==
  /\ variant = "sqlite" /\ dash_pc = "done"
  /\ Len(all_sessions[1]) = 1 /\ Len(all_sessions[2]) = 1
  /\ all_sessions[1][1].stamp = all_sessions[2][1].stamp
  /\ all_sessions[1][1].model_id # all_sessions[2][1].model_id
  /\ layouts[2].recent_file = <<all_sessions[1][1]>>

\* C36: every dashboard is produced; when there is no most recent interaction
\* or its model is not in the pricing table, it carries context_window =
\* 200000 and no quota, and when the model is priced it carries the model's
\* context_window and session_quota.
C36_PricingFallback ==
  /\ Len(layouts) = (CASE dash_pc = "second" -> 1 [] dash_pc = "done" -> 2 [] OTHER -> 0)
  /\ \A n \in DOMAIN layouts :
       LET recent == layouts[n].recent_file
       IN  /\ recent = MostRecent(DashboardFilesRead)
           /\ (recent = << >> \/ recent[1].model_id = "model-x") =>
                /\ layouts[n].context_window = DefaultContextWindow
                /\ layouts[n].quota = << >>
           /\ (recent # << >> /\ recent[1].model_id = "model-a") =>
                /\ layouts[n].context_window = PricingData["model-a"].context_window
                /\ layouts[n].quota = <<PricingData["model-a"].session_quota>>

\* The single-session dashboard was produced for a session whose most recent
\* interaction used the model without pricing.
C36_Witness ==
  /\ variant = "session" /\ dash_pc = "done"
  /\ layouts[2].recent_file # << >>
  /\ layouts[2].recent_file[1].model_id = "model-x"
  /\ layouts[2].context_window = DefaultContextWindow
  /\ layouts[2].quota = << >>

\* Sums over the interactions of `files` at the positions S.
RECURSIVE OutputAt(_, _)
OutputAt(files, S) ==
  IF S = {} THEN 0
  ELSE LET k == CHOOSE i \in S : TRUE IN files[k].output + OutputAt(files, S \ {k})

RECURSIVE DurationAt(_, _)
DurationAt(files, S) ==
  IF S = {} THEN 0
  ELSE LET k == CHOOSE i \in S : TRUE IN files[k].duration_ms + DurationAt(files, S \ {k})

\* The session formula on a list of interactions: output tokens of those
\* modified since now minus 5 minutes, per second of their recorded duration;
\* 0 when there are no such tokens or no such duration.
SessionFormula(files) ==
  LET recent == {k \in DOMAIN files : files[k].stamp >= Now - WindowMinutes}
  IN  IF OutputAt(files, recent) = 0 \/ DurationAt(files, recent) = 0
        THEN Zero
        ELSE Quotient(OutputAt(files, recent) * 1000, DurationAt(files, recent))

\* C37: _calculate_output_rate returns the session formula of the session's
\* interactions and _calculate_workflow_output_rate returns the same formula
\* of the concatenation of all member sessions' interactions; for a workflow
\* of a single session the two methods therefore return the same value.
C37_WorkflowRateIsSessionRate ==
  rate_pc = "done" =>
    /\ variant = "session" => rate = SessionFormula(all_sessions[1])
    /\ variant = "workflow" => rate = SessionFormula(AllFiles(all_sessions))
    /\ (variant = "workflow" /\ Len(all_sessions) = 1) =>
         rate = SessionFormula(all_sessions[1])

\* The workflow method, applied to two sessions with one interaction each in
\* the window, returned 400 tokens over 4 seconds.
C37_Witness ==
  /\ rate_pc = "done" /\ variant = "workflow"
  /\ Len(all_sessions) = 2
  /\ Len(all_sessions[1]) = 1 /\ Len(all_sessions[2]) = 1
  /\ all_sessions[1][1].output = 100 /\ all_sessions[2][1].output = 300
  /\ rate = <<100, 1>>

\* Some interaction of the window has output tokens and no recorded duration.
UnrecordedInWindow ==
  \E k \in DOMAIN WindowInteractions :
    WindowInteractions[k].duration_ms = 0 /\ WindowInteractions[k].output > 0

\* C38: window interactions without a recorded duration add their output
\* tokens to the numerator and nothing to the denominator: in the workflow
\* and SQLite-workflow methods the rate is the output of all window
\* interactions divided by the duration of those that recorded one (0 when
\* none did).
C38_UnrecordedDurationCounts ==
  (rate_pc = "done" /\ variant \in {"workflow", "sqlite"} /\ UnrecordedInWindow) =>
     rate = IF DurationAt(WindowInteractions, DOMAIN WindowInteractions) > 0
              THEN Quotient(OutputAt(WindowInteractions, DOMAIN WindowInteractions) * 1000,
                            DurationAt(WindowInteractions, DOMAIN WindowInteractions))
              ELSE Zero

\* The command is past the selection of a source.
Selected == cli_pc \in {"running", "exit"}

\* No loop was started and the command has ended with status 1.
ExitedWithoutLoop == started = << >> /\ pc = "idle" /\ cli_pc = "exit" /\ exit_code = 1

\* C39: the `live` command starts no poll loop and exits with status 1 when
\* the source it selects is not available: neither source available, --source
\* sqlite without an available database, --source files without file storage;
\* and a source requested explicitly is the only one that is ever started.
C39_UnavailableSourceExits ==
  Selected =>
    /\ (~SqliteAvailable /\ ~FileStorageExists) => ExitedWithoutLoop
    /\ (source = "sqlite" /\ ~SqliteAvailable) => ExitedWithoutLoop
    /\ (source = "files" /\ ~FileStorageExists) => ExitedWithoutLoop
    /\ source = "sqlite" => started \in {<< >>, <<"sqlite">>}
    /\ source = "files" => started \in {<< >>, <<"files">>}

\* --source sqlite without a database, while file storage is available and the
\* validation result is valid: the command ended with status 1 and no loop.
C39_Witness ==
  /\ source = "sqlite" /\ ~env.db_found /\ FileStorageExists
  /\ validation.kind = "returned" /\ validation.valid
  /\ ExitedWithoutLoop

TypeOK ==
  /\ mode \in {"files", "sqlite", "none"}
  /\ tick \in 0..MaxTicks
  /\ tracked_session_ids \subseteq SessionIds
====
